---- MODULE Spec2Model ----
(***************************************************************************)
(* A model of the response decorators of csmith/middleware: the compression *)
(* wrapper (compress.go), the cache-policy wrapper (cachecontrol.go), the   *)
(* error-substitution wrapper (errorhandler.go) and the header-injection    *)
(* wrapper (headers.go), each wrapping the http.ResponseWriter it is given. *)
(*                                                                          *)
(* One request is served per behaviour: the middleware instance is built    *)
(* (Init), the request arrives (Serve), the wrapped handler performs a      *)
(* sequence of operations on the writer it was handed, then returns or      *)
(* panics.  Header values and body bytes are modelled concretely: a header  *)
(* value is a sequence of one-character strings, a body byte is a small     *)
(* integer, and the gzip stream is a framed, run-length coded byte sequence *)
(* that a decoder has to parse back.                                        *)
(***************************************************************************)
EXTENDS Integers, Sequences, FiniteSets, TLC

(***************************************************************************)
(* Bounds of the model.                                                     *)
(***************************************************************************)
\* The number of operations the wrapped handler performs before it returns.
MaxOps == 3

\* The number of comma-separated parts in the Accept-Encoding values handed
\* to parseEncodings on its own.
MaxParts == 3

\* The number of pending bytes at which the compressor emits a block.
GzBlockSize == 2

\* The number of middlewares handed to Chain.
MaxMiddleware == 2

\* The number of requests served by one handler composed by Chain.
MaxRequests == 2

\* The number of entries in the X-Forwarded-For values of a request.
MaxHops == 3

\* The number of characters in the path of a request.
MaxPathLen == 5

(***************************************************************************)
(* Strings.  A string is a tuple of one-character strings, so that the      *)
(* code's Split, Cut, TrimSpace, ToLower and HasPrefix are computed.        *)
(***************************************************************************)
S ==
  [
    gzip |->
      <<"g", "z", "i", "p">>,
    GZIP |->
      <<"G", "Z", "I", "P">>,
    star |->
      <<"*">>,
    deflate_br |->
      <<"d", "e", "f", "l", "a", "t", "e", ",", " ", "b", "r">>,
    gzip_q0 |->
      <<"g", "z", "i", "p", ";", "q", "=", "0">>,
    gzip_q05 |->
      <<" ", "g", "z", "i", "p", " ", ";", " ", "q", "=", "0", ".", "5">>,
    gzip_qbad |->
      <<"g", "z", "i", "p", ";", "q", "=", "x">>,
    br_star_q01 |->
      <<"b", "r", ",", "*", ";", "q", "=", "0", ".", "1">>,
    AcceptEncoding |->
      <<"A", "c", "c", "e", "p", "t", "-", "E", "n", "c", "o", "d", "i",
      "n", "g">>,
    five |->
      <<"5">>,
    br |->
      <<"b", "r">>,
    json |->
      <<"a", "p", "p", "l", "i", "c", "a", "t", "i", "o", "n", "/", "j",
      "s", "o", "n">>,
    json_charset |->
      <<"a", "p", "p", "l", "i", "c", "a", "t", "i", "o", "n", "/", "j",
      "s", "o", "n", ";", " ", "c", "h", "a", "r", "s", "e", "t", "=",
      "u", "8">>,
    webp |->
      <<"i", "m", "a", "g", "e", "/", "w", "e", "b", "p">>,
    image_any |->
      <<"i", "m", "a", "g", "e", "/", "*">>,
    application |->
      <<"a", "p", "p", "l", "i", "c", "a", "t", "i", "o", "n", "/">>,
    application_any |->
      <<"a", "p", "p", "l", "i", "c", "a", "t", "i", "o", "n", "/", "*">>,
    xml |->
      <<"a", "p", "p", "l", "i", "c", "a", "t", "i", "o", "n", "/", "x",
      "m", "l">>,
    atom |->
      <<"a", "p", "p", "l", "i", "c", "a", "t", "i", "o", "n", "/", "a",
      "t", "o", "m", "+", "x", "m", "l">>,
    ldjson |->
      <<"a", "p", "p", "l", "i", "c", "a", "t", "i", "o", "n", "/", "l",
      "d", "+", "j", "s", "o", "n">>,
    audio_any |->
      <<"a", "u", "d", "i", "o", "/", "*">>,
    font_any |->
      <<"f", "o", "n", "t", "/", "*">>,
    text_any |->
      <<"t", "e", "x", "t", "/", "*">>,
    video_any |->
      <<"v", "i", "d", "e", "o", "/", "*">>,
    nocache |->
      <<"n", "o", "-", "c", "a", "c", "h", "e">>,
    ip_203_0_113_1 |->
      <<"2", "0", "3", ".", "0", ".", "1", "1", "3", ".", "1">>,
    ip_198_51_100_1 |->
      <<"1", "9", "8", ".", "5", "1", ".", "1", "0", "0", ".", "1">>,
    ip_192_168_1_100 |->
      <<"1", "9", "2", ".", "1", "6", "8", ".", "1", ".", "1", "0", "0">>,
    ip_10_0_0_1_p4711 |->
      <<"1", "0", ".", "0", ".", "0", ".", "1", ":", "4", "7", "1", "1">>,
    ip_172_31_255_255_p8080 |->
      <<"1", "7", "2", ".", "3", "1", ".", "2", "5", "5", ".", "2", "5",
      "5", ":", "8", "0", "8", "0">>,
    ip_172_32_0_1 |->
      <<"1", "7", "2", ".", "3", "2", ".", "0", ".", "1">>,
    invalid_ip |->
      <<"i", "n", "v", "a", "l", "i", "d", "-", "i", "p">>,
    ip_192_168_1_1_p8080 |->
      <<"1", "9", "2", ".", "1", "6", "8", ".", "1", ".", "1", ":", "8",
      "0", "8", "0">>,
    ip_203_0_113_50_p8080 |->
      <<"2", "0", "3", ".", "0", ".", "1", "1", "3", ".", "5", "0", ":",
      "8", "0", "8", "0">>,
    at |->
      <<"@">>,
    original |->
      <<"o", "r", "i", "g">>,
    errorpage |->
      <<"e", "r", "r", "o", "r", "-", "p", "a", "g", "e">>,
    deny |->
      <<"D", "E", "N", "Y">>,
    nostore |->
      <<"n", "o", "-", "s", "t", "o", "r", "e">>,
    GZIP_sp |->
      <<" ", "G", "Z", "I", "P", " ">>,
    gzip_q0123 |->
      <<"g", "z", "i", "p", ";", "q", "=", "0", ".", "1", "2", "3">>,
    star_q01 |->
      <<"*", ";", "q", "=", "0", ".", "1">>,
    sp_br_q09 |->
      <<" ", "b", "r", ";", "q", "=", "0", ".", "9">>,
    Deflate |->
      <<"D", "e", "f", "l", "a", "t", "e">>,
    deflate |->
      <<"d", "e", "f", "l", "a", "t", "e">>,
    deflate_q |->
      <<"d", "e", "f", "l", "a", "t", "e", ";", "q", "=">>,
    text_plain |->
      <<"t", "e", "x", "t", "/", "p", "l", "a", "i", "n", ";", " ", "c",
      "h", "a", "r", "s", "e", "t", "=", "u", "t", "f", "-", "8">>,
    nosniff |->
      <<"n", "o", "s", "n", "i", "f", "f">>,
    maxage |->
      <<"m", "a", "x", "-", "a", "g", "e", "=">>
  ]

Upper == <<"A", "B", "C", "D", "E", "F", "G", "H", "I", "J", "K", "L", "M",
           "N", "O", "P", "Q", "R", "S", "T", "U", "V", "W", "X", "Y", "Z">>
Lower == <<"a", "b", "c", "d", "e", "f", "g", "h", "i", "j", "k", "l", "m",
           "n", "o", "p", "q", "r", "s", "t", "u", "v", "w", "x", "y", "z">>
Digits == <<"0", "1", "2", "3", "4", "5", "6", "7", "8", "9">>

IsSpace(c) == c \in {" ", "\t", "\n", "\r"}

\* strings.ToLower on one character
LowerChar(c) ==
  IF \E i \in 1..26 : Upper[i] = c
  THEN Lower[CHOOSE i \in 1..26 : Upper[i] = c]
  ELSE c

ToLower(s) == [i \in 1..Len(s) |-> LowerChar(s[i])]

\* strings.TrimSpace: the longest sub-string with no leading or trailing space
TrimSpace(s) ==
  LET idx == {i \in 1..Len(s) : ~IsSpace(s[i])}
  IN IF idx = {} THEN <<>>
     ELSE LET lo == CHOOSE i \in idx : \A j \in idx : i <= j
              hi == CHOOSE i \in idx : \A j \in idx : j <= i
          IN SubSeq(s, lo, hi)

\* strings.Cut(s, sep) for a one-character separator: [before, after, found]
Cut(s, sep) ==
  LET idx == {i \in 1..Len(s) : s[i] = sep}
  IN IF idx = {} THEN [before |-> s, after |-> <<>>, found |-> FALSE]
     ELSE LET k == CHOOSE i \in idx : \A j \in idx : i <= j
          IN [before |-> SubSeq(s, 1, k - 1),
              after |-> SubSeq(s, k + 1, Len(s)),
              found |-> TRUE]

\* strings.Split(s, sep) for a one-character separator
RECURSIVE Split(_, _)
Split(s, sep) ==
  LET c == Cut(s, sep)
  IN IF c.found THEN <<c.before>> \o Split(c.after, sep) ELSE <<s>>

HasPrefix(s, p) == Len(s) >= Len(p) /\ SubSeq(s, 1, Len(p)) = p

TrimPrefix(s, p) == IF HasPrefix(s, p) THEN SubSeq(s, Len(p) + 1, Len(s)) ELSE s

HasSuffix(s, p) ==
  Len(s) >= Len(p) /\ SubSeq(s, Len(s) - Len(p) + 1, Len(s)) = p

\* strings.TrimSuffix: s without the suffix p, once, if it ends with it
TrimSuffix(s, p) == IF HasSuffix(s, p) THEN SubSeq(s, 1, Len(s) - Len(p)) ELSE s

DigitVal(c) == (CHOOSE i \in 1..10 : Digits[i] = c) - 1

IsDigit(c) == \E i \in 1..10 : Digits[i] = c

RECURSIVE DigitsVal(_)
DigitsVal(s) ==
  IF s = <<>> THEN 0
  ELSE 10 * DigitsVal(SubSeq(s, 1, Len(s) - 1)) + DigitVal(s[Len(s)])

RECURSIVE Pow10(_)
Pow10(n) == IF n = 0 THEN 1 ELSE 10 * Pow10(n - 1)

\* fmt.Sprintf("%d", n) for n >= 0
RECURSIVE FormatNat(_)
FormatNat(n) ==
  IF n < 10 THEN <<Digits[n + 1]>>
  ELSE FormatNat(n \div 10) \o <<Digits[(n % 10) + 1]>>

\* fmt.Sprintf("%d", n)
FormatInt(n) == IF n < 0 THEN <<"-">> \o FormatNat(0 - n) ELSE FormatNat(n)

(***************************************************************************)
(* strconv.ParseFloat on the decimal forms: an optional sign, digits, an    *)
(* optional fraction.  The value is the exact rational num/den; anything    *)
(* else is a syntax error, for which ParseFloat returns 0 (the code         *)
(* discards the error).  The requests of the model use no exponent, hex,    *)
(* "inf" or "nan" form.                                                     *)
(***************************************************************************)
ParseFloat(s) ==
  LET signed == s # <<>> /\ s[1] \in {"+", "-"}
      body == IF signed THEN SubSeq(s, 2, Len(s)) ELSE s
      c == Cut(body, ".")
      wellFormed == /\ \A i \in 1..Len(c.before) : IsDigit(c.before[i])
                    /\ \A i \in 1..Len(c.after) : IsDigit(c.after[i])
                    /\ Len(c.before) + Len(c.after) > 0
      mag == DigitsVal(c.before \o c.after)
  IN IF ~wellFormed THEN [num |-> 0, den |-> 1]
     ELSE [num |-> IF signed /\ s[1] = "-" THEN 0 - mag ELSE mag,
           den |-> Pow10(Len(c.after))]

One == [num |-> 1, den |-> 1]

\* A faulty loop body: the coding is not lower-cased.
ParsePartNoLower(part) ==
  LET c == Cut(TrimSpace(part), ";")
      params == TrimSpace(c.after)
  IN [coding |-> TrimSpace(c.before),
      value |-> IF HasPrefix(params, <<"q", "=">>)
                THEN ParseFloat(TrimPrefix(params, <<"q", "=">>))
                ELSE One]

\* The body of parseEncodings' inner loop: one comma-separated part to
\* its (coding, value) pair.
ParsePart(part) ==
  LET c == Cut(TrimSpace(part), ";")
      coding == ToLower(TrimSpace(c.before))
      params == TrimSpace(c.after)
  IN [coding |-> coding,
      value |-> IF HasPrefix(params, <<"q", "=">>)
                THEN ParseFloat(TrimPrefix(params, <<"q", "=">>))
                ELSE One]

\* All the parts of all the header values, in the order the loops visit them.
RECURSIVE AllParts(_)
AllParts(encoding) ==
  IF encoding = <<>> THEN <<>>
  ELSE Split(Head(encoding), ",") \o AllParts(Tail(encoding))

\* parseEncodings: the map from coding to weight; a later part overwrites an
\* earlier one with the same coding.  A coding that is absent is not in the
\* domain of the result.
parseEncodings(encoding) ==
  LET parts == AllParts(encoding)
      pairs == [i \in 1..Len(parts) |-> ParsePart(parts[i])]
      keys == {pairs[i].coding : i \in 1..Len(pairs)}
      last(k) == CHOOSE i \in 1..Len(pairs) :
                   /\ pairs[i].coding = k
                   /\ \A j \in 1..Len(pairs) : pairs[j].coding = k => j <= i
  IN [k \in keys |-> pairs[last(k)].value]

\* encs[k] > 0, where a missing key reads as the zero value 0.0
Weight(encs, k) == IF k \in DOMAIN encs THEN encs[k] ELSE [num |-> 0, den |-> 1]

Positive(v) == v.num > 0

\* make(map[string]float64)
NoEncodings == [k \in {} |-> One]

(***************************************************************************)
(* http.Header: a map from key to the list of its values.  An absent key    *)
(* reads as the empty list.                                                 *)
(***************************************************************************)
HeaderKeys == {"Vary", "Content-Encoding", "Content-Length", "Content-Type",
               "Cache-Control", "X-Original-Header", "X-Custom-Error",
               "X-Frame-Options", "X-Content-Type-Options"}

NoHeaders == [k \in HeaderKeys |-> <<>>]

Last(s) == s[Len(s)]

\* Header.Get: the first value of the key, or ""
HGet(h, k) == IF h[k] = <<>> THEN <<>> ELSE h[k][1]

\* Header.Set: replaces the values of the key
HSet(h, k, v) == [h EXCEPT ![k] = <<v>>]

\* Header.Add: appends to the values of the key
HAdd(h, k, v) == [h EXCEPT ![k] = Append(@, v)]

\* Header.Del
HDel(h, k) == [h EXCEPT ![k] = <<>>]

(***************************************************************************)
(* Body bytes and status codes.                                             *)
(***************************************************************************)
Bytes == {1, 2}

StatusOK == 200

Codes == {200, 400, 404}

(***************************************************************************)
(* The state of one request: the header map every writer of the chain       *)
(* shares (each wrapper embeds the http.ResponseWriter it wraps, so         *)
(* Header() reaches the transport's map), the transport's committed status, *)
(* headers and body, the state of each wrapper, and the trace of the calls  *)
(* made on the wrappers and on the transport.                               *)
(*   L[1] is the wrapper handed to the handler, L[Len(L)] wraps the         *)
(*   transport.                                                             *)
(***************************************************************************)
GzOff == [on |-> FALSE, wroteHeader |-> FALSE, buf |-> <<>>, sum |-> 0,
          size |-> 0, closed |-> FALSE, closes |-> 0]

NewLayer(kind) == [kind |-> kind, headers |-> FALSE, drop |-> FALSE,
                   gz |-> GzOff, commits |-> <<>>, status |-> 0, written |-> 0]

NewWorld == [hdr |-> NoHeaders, committed |-> FALSE, status |-> 0,
             sent |-> NoHeaders, body |-> <<>>, ev |-> <<>>, org |-> "handler",
             ret |-> [n |-> 0, err |-> FALSE], L |-> <<>>,
             subRuns |-> 0, subHdr |-> NoHeaders,
             logged |-> <<>>, handled |-> FALSE, flushes |-> 0,
             panicking |-> FALSE, panicValue |-> "", panicLog |-> <<>>,
             recoveredAt |-> 0]

Ev(t, l, c, d, o) == [t |-> t, l |-> l, c |-> c, d |-> d, o |-> o]

(***************************************************************************)
(* The transport's writer, as net/http and httptest.ResponseRecorder        *)
(* implement http.ResponseWriter: the first WriteHeader fixes the status    *)
(* and a copy of the headers, a later one is ignored; a Write before any    *)
(* WriteHeader commits 200 first; a Write accepts every byte.               *)
(***************************************************************************)
\* A transport without the one-shot guard: every WriteHeader commits anew.
BaseWriteHeaderAlways(code, w) ==
  [w EXCEPT !.committed = TRUE, !.status = code, !.sent = w.hdr,
            !.ev = Append(@, Ev("bWH", 0, code, <<>>, w.org))]

BaseWriteHeader(code, w) ==
  IF w.committed
  THEN [w EXCEPT !.ev = Append(@, Ev("bWH", 0, code, <<>>, w.org))]
  ELSE [w EXCEPT !.committed = TRUE, !.status = code, !.sent = w.hdr,
                 !.ev = Append(@, Ev("bWH", 0, code, <<>>, w.org))]

\* The commit a Write implies, and the one the server performs when the
\* handler has returned without committing.
BaseImplicitCommit(w) ==
  IF w.committed THEN w
  ELSE [w EXCEPT !.committed = TRUE, !.status = StatusOK, !.sent = w.hdr]

BaseWrite(b, w) ==
  LET w1 == BaseImplicitCommit(w)
  IN [w1 EXCEPT !.body = @ \o b,
                !.ev = Append(@, Ev("bW", 0, 0, b, w.org)),
                !.ret = [n |-> Len(b), err |-> FALSE]]

\* The transport's Flush (http.Flusher): it commits 200 if nothing has been
\* committed and sends what is buffered.
BaseFlush(w) ==
  [BaseImplicitCommit(w) EXCEPT !.flushes = @ + 1,
                                !.ev = Append(@, Ev("bF", 0, 0, <<>>, w.org))]

(***************************************************************************)
(* State.                                                                   *)
(*   conf  the middleware instances' configuration, fixed at construction   *)
(*   req   the request being served                                         *)
(*   pc    "idle" before the request, "run" while the wrapped handler       *)
(*         runs, "done" after it returned, "panicked" after it panicked     *)
(*   w     the state of the response (see NewWorld)                         *)
(*   ops   the operations the wrapped handler has performed so far          *)
(* and, for parseEncodings taken on its own (SpecParse):                    *)
(*   tokens    the comma-separated parts the Accept-Encoding values were    *)
(*             put together from, one list per header value                 *)
(*   accept    the header values, as parseEncodings is given them           *)
(*   codings   the map parseEncodings returned                              *)
(* and, for a handler composed by Chain (SpecChain):                        *)
(*   middleware   conf.middleware, the ids of the middlewares in the order  *)
(*                they were supplied                                        *)
(*   next         the variable next captured by the composed handler: the   *)
(*                ids of the middlewares wrapped around the innermost       *)
(*                handler, outermost first                                  *)
(*   served       for each request its position in the composed handler,    *)
(*                its loop index, the handler m(next) it has built and the  *)
(*                ids appended to order while it was served                 *)
(* and, for RealAddress (SpecAddr):                                         *)
(*   trustedProxies   conf.trustedProxies, a list of [ip, ones]             *)
(*   peer             the address of the transport peer, r.RemoteAddr as    *)
(*                    the server set it                                     *)
(*   remoteAddr       r.RemoteAddr                                          *)
(*   forwardedFor     the values of X-Forwarded-For, in header order        *)
(*   entries          the hops the X-Forwarded-For values were put together *)
(*                    from, in header order                                 *)
(* and, for StripTrailingSlashes (SpecSlash):                               *)
(*   givenPath        the path of the request as the server received it     *)
(*   urlPath          r.URL.Path                                            *)
(*   rawQuery         r.URL.RawQuery                                        *)
(***************************************************************************)
VARIABLES conf, req, pc, w, ops, tokens, accept, codings,
          middleware, next, served,
          trustedProxies, peer, remoteAddr, forwardedFor, entries,
          givenPath, urlPath, rawQuery

vars == <<conf, req, pc, w, ops, tokens, accept, codings,
          middleware, next, served,
          trustedProxies, peer, remoteAddr, forwardedFor, entries,
          givenPath, urlPath, rawQuery>>

slashVars == <<givenPath, urlPath, rawQuery>>

\* No StripTrailingSlashes middleware takes part
SlashUnused == givenPath = <<>> /\ urlPath = <<>> /\ rawQuery = <<>>

parseVars == <<tokens, accept, codings>>

chainVars == <<middleware, next, served>>

addrVars == <<trustedProxies, peer, remoteAddr, forwardedFor, entries>>

\* No RealAddress middleware takes part
AddrUnused ==
  /\ trustedProxies = <<>>
  /\ peer = <<>>
  /\ remoteAddr = <<>>
  /\ forwardedFor = <<>>
  /\ entries = <<>>

\* No handler composed by Chain takes part
ChainUnused == middleware = <<>> /\ next = <<>> /\ served = <<>>

(***************************************************************************)
(* gzip.Writer, writing to the writer the middleware was given (the layer   *)
(* after its own wrapper).  The stream is the two magic bytes, blocks       *)
(* <<final, n, b1, c1, ..., bn, cn>> of n run-length pairs, and a trailer   *)
(* <<checksum, size>>.  The header goes out with the first Write (or with   *)
(* Close when nothing was written); bytes are held back until GzBlockSize   *)
(* of them are pending or the writer is closed.                             *)
(***************************************************************************)
GzMagic == <<31, 139>>

RECURSIVE SumSeq(_)
SumSeq(s) == IF s = <<>> THEN 0 ELSE Head(s) + SumSeq(Tail(s))

\* The length of the run of s[1] at the head of s
RECURSIVE RunLen(_)
RunLen(s) ==
  IF Len(s) >= 2 /\ s[2] = s[1] THEN 1 + RunLen(Tail(s)) ELSE 1

RECURSIVE RLE(_)
RLE(s) ==
  IF s = <<>> THEN <<>>
  ELSE LET n == RunLen(s)
       IN <<s[1], n>> \o RLE(SubSeq(s, n + 1, Len(s)))

GzBlock(final, data) ==
  LET enc == RLE(data) IN <<final, Len(enc) \div 2>> \o enc

RECURSIVE Repeat(_, _)
Repeat(b, n) == IF n <= 0 THEN <<>> ELSE <<b>> \o Repeat(b, n - 1)

RECURSIVE UnRLE(_)
UnRLE(s) ==
  IF Len(s) < 2 THEN <<>>
  ELSE Repeat(s[1], s[2]) \o UnRLE(SubSeq(s, 3, Len(s)))

\* The blocks and the trailer of a stream, decoded: [ok, data]
RECURSIVE GunzipBlocks(_, _)
GunzipBlocks(s, acc) ==
  IF Len(s) < 2 \/ s[1] \notin {0, 1} \/ s[2] < 0 \/ Len(s) < 2 + 2 * s[2]
  THEN [ok |-> FALSE, data |-> <<>>]
  ELSE LET data == acc \o UnRLE(SubSeq(s, 3, 2 + 2 * s[2]))
           rest == SubSeq(s, 3 + 2 * s[2], Len(s))
       IN IF s[1] = 0 THEN GunzipBlocks(rest, data)
          ELSE IF rest = <<SumSeq(data), Len(data)>>
               THEN [ok |-> TRUE, data |-> data]
               ELSE [ok |-> FALSE, data |-> <<>>]

\* What a gzip reader makes of a body: [ok, data]
Gunzip(s) ==
  IF ~HasPrefix(s, GzMagic) THEN [ok |-> FALSE, data |-> <<>>]
  ELSE GunzipBlocks(SubSeq(s, Len(GzMagic) + 1, Len(s)), <<>>)

\* A check of the level that accepts the numbered levels 1 to 9 only
ValidGzipLevel1to9(level) == level >= 1 /\ level <= 9

\* gzip.NewWriterLevel's check of the level (HuffmanOnly = -2 up to
\* BestCompression = 9)
ValidGzipLevel(level) == level >= -2 /\ level <= 9

\* A call through the http.ResponseWriter interface on the i-th writer of
\* the chain: m is the method called and its argument
RECURSIVE Dispatch(_, _, _)

\* WriteHeader on the i-th writer of the chain
WriteHeaderAt(i, code, w0) ==
  Dispatch(i, [wh |-> TRUE, code |-> code, b |-> <<>>], w0)

\* Write on the i-th writer of the chain
WriteAt(i, b, w0) ==
  Dispatch(i, [wh |-> FALSE, code |-> 0, b |-> b], w0)

\* gzip.Writer.Write
GzWrite(i, b, w0) ==
  LET g == w0.L[i].gz
      w1 == IF g.wroteHeader THEN w0 ELSE WriteAt(i + 1, GzMagic, w0)
      buf1 == g.buf \o b
      emit == Len(buf1) >= GzBlockSize
      w2 == IF emit THEN WriteAt(i + 1, GzBlock(0, buf1), w1) ELSE w1
  IN [w2 EXCEPT !.L[i].gz = [g EXCEPT !.wroteHeader = TRUE,
                                      !.buf = IF emit THEN <<>> ELSE buf1,
                                      !.sum = @ + SumSeq(b),
                                      !.size = @ + Len(b)],
                !.ret = [n |-> Len(b), err |-> FALSE]]

\* gzip.Writer.Close
GzClose(i, w0) ==
  LET g == w0.L[i].gz
      w1 == IF g.wroteHeader THEN w0 ELSE WriteAt(i + 1, GzMagic, w0)
      w2 == WriteAt(i + 1, GzBlock(1, g.buf), w1)
      w3 == WriteAt(i + 1, <<g.sum, g.size>>, w2)
  IN IF g.closed THEN [w0 EXCEPT !.L[i].gz.closes = @ + 1]
     ELSE [w3 EXCEPT !.L[i].gz = [g EXCEPT !.wroteHeader = TRUE,
                                           !.buf = <<>>, !.closed = TRUE,
                                           !.closes = @ + 1]]

(***************************************************************************)
(* The wrappers.  Each WriteHeader starts by setting the wrapper's headers  *)
(* flag; Commit also records the call in the trace.                         *)
(***************************************************************************)
Commit(i, code, w0) ==
  [w0 EXCEPT !.L[i].headers = TRUE,
             !.L[i].commits = Append(@, code),
             !.ev = Append(@, Ev("commit", i, code, <<>>, w0.org))]

\* A faulty gzipWrapper.WriteHeader: it delegates the commit first and
\* rewrites the headers afterwards.
GzipWriteHeaderLate(i, code, w0) ==
  LET w1 == WriteHeaderAt(i + 1, code, Commit(i, code, w0))
      w2 == [w1 EXCEPT !.hdr = HAdd(@, "Vary", S.AcceptEncoding)]
  IN IF w2.L[i].gz.on
     THEN [w2 EXCEPT !.hdr = HDel(HSet(@, "Content-Encoding", S.gzip),
                                  "Content-Length")]
     ELSE w2

\* gzipWrapper.WriteHeader
GzipWriteHeader(i, code, w0) ==
  LET w1 == Commit(i, code, w0)
      w2 == [w1 EXCEPT !.hdr = HAdd(@, "Vary", S.AcceptEncoding)]
      w3 == IF w2.L[i].gz.on
            THEN [w2 EXCEPT !.hdr = HDel(HSet(@, "Content-Encoding", S.gzip),
                                         "Content-Length")]
            ELSE w2
  IN WriteHeaderAt(i + 1, code, w3)

\* gzipWrapper.Write
GzipWrite(i, b, w0) ==
  LET w1 == IF ~w0.L[i].headers THEN GzipWriteHeader(i, StatusOK, w0) ELSE w0
  IN IF w1.L[i].gz.on THEN GzWrite(i, b, w1) ELSE WriteAt(i + 1, b, w1)

\* A time.Duration is counted here in tenths of a second.
Second == 10

\* int(t.Seconds()): the duration in seconds, truncated towards zero
Seconds(d) == IF d >= 0 THEN d \div Second ELSE 0 - ((0 - d) \div Second)

MaxAge(d) == S.maxage \o FormatInt(Seconds(d))

\* A faulty cacheControlWrapper.WriteHeader: the main type's wildcard is
\* looked up before the full type.
CacheWriteHeaderWildcardFirst(i, code, w0) ==
  LET w1 == Commit(i, code, w0)
      contentType == Cut(HGet(w1.hdr, "Content-Type"), ";").before
      mainType == Cut(contentType, "/").before
      wild == mainType \o <<"/", "*">>
      times == conf.cacheTimes
  IN IF HGet(w1.hdr, "Cache-Control") # <<>>
     THEN WriteHeaderAt(i + 1, code, w1)
     ELSE IF wild \in DOMAIN times
     THEN WriteHeaderAt(i + 1, code,
            [w1 EXCEPT !.hdr = HSet(@, "Cache-Control", MaxAge(times[wild]))])
     ELSE IF contentType \in DOMAIN times
     THEN WriteHeaderAt(i + 1, code,
            [w1 EXCEPT !.hdr = HSet(@, "Cache-Control", MaxAge(times[contentType]))])
     ELSE WriteHeaderAt(i + 1, code, w1)

\* A faulty cacheControlWrapper.WriteHeader: it does not look for a
\* Cache-Control header that is already there.
CacheWriteHeaderOverrides(i, code, w0) ==
  LET w1 == Commit(i, code, w0)
      contentType == Cut(HGet(w1.hdr, "Content-Type"), ";").before
      mainType == Cut(contentType, "/").before
      wild == mainType \o <<"/", "*">>
      times == conf.cacheTimes
  IN IF contentType \in DOMAIN times
     THEN WriteHeaderAt(i + 1, code,
            [w1 EXCEPT !.hdr = HSet(@, "Cache-Control", MaxAge(times[contentType]))])
     ELSE IF wild \in DOMAIN times
     THEN WriteHeaderAt(i + 1, code,
            [w1 EXCEPT !.hdr = HSet(@, "Cache-Control", MaxAge(times[wild]))])
     ELSE WriteHeaderAt(i + 1, code, w1)

\* cacheControlWrapper.WriteHeader
CacheWriteHeader(i, code, w0) ==
  LET w1 == Commit(i, code, w0)
      contentType == Cut(HGet(w1.hdr, "Content-Type"), ";").before
      mainType == Cut(contentType, "/").before
      wild == mainType \o <<"/", "*">>
      times == conf.cacheTimes
  IN IF HGet(w1.hdr, "Cache-Control") # <<>>
     THEN WriteHeaderAt(i + 1, code, w1)
     ELSE IF contentType \in DOMAIN times
     THEN WriteHeaderAt(i + 1, code,
            [w1 EXCEPT !.hdr = HSet(@, "Cache-Control", MaxAge(times[contentType]))])
     ELSE IF wild \in DOMAIN times
     THEN WriteHeaderAt(i + 1, code,
            [w1 EXCEPT !.hdr = HSet(@, "Cache-Control", MaxAge(times[wild]))])
     ELSE WriteHeaderAt(i + 1, code, w1)

\* cacheControlWrapper.Write
CacheWrite(i, b, w0) ==
  LET w1 == IF ~w0.L[i].headers THEN CacheWriteHeader(i, StatusOK, w0) ELSE w0
  IN WriteAt(i + 1, b, w1)

\* A faulty substitution, run as h.ServeHTTP(e, e.req): the substitute's
\* body is written to the wrapper itself and not to the writer it wraps.
RunSubstituteOnWrapper(h, j, w0) ==
  LET w1 == [w0 EXCEPT !.org = "substitute", !.subRuns = @ + 1,
                       !.subHdr = w0.hdr]
      w2 == IF h.hdr THEN [w1 EXCEPT !.hdr = HSet(@, "X-Custom-Error", S.errorpage)]
            ELSE w1
      w3 == IF h.code # 0 THEN WriteHeaderAt(j, h.code, w2) ELSE w2
      w4 == IF h.body # <<>> THEN WriteAt(j - 1, h.body, w3) ELSE w3
  IN [w4 EXCEPT !.org = w0.org]

\* A substitute handler, run as h.ServeHTTP(e.ResponseWriter, e.req): it may
\* set a header, set a status and write a body on the writer the wrapper wraps.
RunSubstitute(h, j, w0) ==
  LET w1 == [w0 EXCEPT !.org = "substitute", !.subRuns = @ + 1,
                       !.subHdr = w0.hdr]
      w2 == IF h.hdr THEN [w1 EXCEPT !.hdr = HSet(@, "X-Custom-Error", S.errorpage)]
            ELSE w1
      w3 == IF h.code # 0 THEN WriteHeaderAt(j, h.code, w2) ELSE w2
      w4 == IF h.body # <<>> THEN WriteAt(j, h.body, w3) ELSE w3
  IN [w4 EXCEPT !.org = w0.org]

\* A faulty errorHandlingWrapper.WriteHeader: it never clears the headers.
ErrorWriteHeaderKeepsHeaders(i, code, w0) ==
  LET w1 == Commit(i, code, w0)
      w2 == [w1 EXCEPT !.L[i].drop = TRUE]
  IN IF code \in DOMAIN conf.handlers
     THEN RunSubstitute(conf.handlers[code], i + 1, w2)
     ELSE WriteHeaderAt(i + 1, code, w1)

\* errorHandlingWrapper.WriteHeader
ErrorWriteHeader(i, code, w0) ==
  LET w1 == Commit(i, code, w0)
      w2 == [w1 EXCEPT !.L[i].drop = TRUE,
                       !.hdr = IF conf.clearHeaders THEN NoHeaders ELSE @]
  IN IF code \in DOMAIN conf.handlers
     THEN RunSubstitute(conf.handlers[code], i + 1, w2)
     ELSE WriteHeaderAt(i + 1, code, w1)

\* A faulty errorHandlingWrapper.Write: it forwards the bytes whether or not
\* the response was substituted.
ErrorWriteForwards(i, b, w0) ==
  LET w1 == IF ~w0.L[i].headers THEN ErrorWriteHeader(i, StatusOK, w0) ELSE w0
  IN WriteAt(i + 1, b, w1)

\* errorHandlingWrapper.Write
ErrorWrite(i, b, w0) ==
  LET w1 == IF ~w0.L[i].headers THEN ErrorWriteHeader(i, StatusOK, w0) ELSE w0
  IN IF w1.L[i].drop
     THEN [w1 EXCEPT !.ret = [n |-> Len(b), err |-> FALSE]]
     ELSE WriteAt(i + 1, b, w1)

\* A faulty headersWrapper.WriteHeader: Header().Set in place of Header().Add
HeadersWriteHeaderSets(i, code, w0) ==
  LET w1 == Commit(i, code, w0)
      w2 == [w1 EXCEPT !.hdr = [k \in HeaderKeys |->
                                  IF conf.headers[k] = <<>> THEN @[k]
                                  ELSE <<Last(conf.headers[k])>>]]
  IN WriteHeaderAt(i + 1, code, w2)

\* headersWrapper.WriteHeader
HeadersWriteHeader(i, code, w0) ==
  LET w1 == Commit(i, code, w0)
      w2 == [w1 EXCEPT !.hdr = [k \in HeaderKeys |-> @[k] \o conf.headers[k]]]
  IN WriteHeaderAt(i + 1, code, w2)

\* A faulty headersWrapper.Write: it forwards the bytes without committing.
HeadersWriteNoCommit(i, b, w0) == WriteAt(i + 1, b, w0)

\* headersWrapper.Write
HeadersWrite(i, b, w0) ==
  LET w1 == IF ~w0.L[i].headers THEN HeadersWriteHeader(i, StatusOK, w0) ELSE w0
  IN WriteAt(i + 1, b, w1)

\* responseWriterWrapper.WriteHeader
MetricsWriteHeader(i, code, w0) ==
  LET w1 == Commit(i, code, w0)
  IN WriteHeaderAt(i + 1, code, [w1 EXCEPT !.L[i].status = code])

\* A faulty responseWriterWrapper.Write: written = n in place of written += n
MetricsWriteOverwrites(i, b, w0) ==
  LET w1 == WriteAt(i + 1, b, w0)
  IN [w1 EXCEPT !.L[i].written = w1.ret.n]

\* responseWriterWrapper.Write
MetricsWrite(i, b, w0) ==
  LET w1 == WriteAt(i + 1, b, w0)
  IN [w1 EXCEPT !.L[i].written = @ + w1.ret.n]

\* The method of the writer's dynamic type: of the wrapper the middleware
\* built or, past the last wrapper, of the transport's writer.  Middlewares
\* that build no wrapper hand their own writer on.
Dispatch(i, m, w0) ==
  IF m.wh
  THEN IF i > Len(w0.L) THEN BaseWriteHeader(m.code, w0)
       ELSE CASE w0.L[i].kind = "gzip" -> GzipWriteHeader(i, m.code, w0)
              [] w0.L[i].kind = "cache" -> CacheWriteHeader(i, m.code, w0)
              [] w0.L[i].kind = "error" -> ErrorWriteHeader(i, m.code, w0)
              [] w0.L[i].kind = "headers" -> HeadersWriteHeader(i, m.code, w0)
              [] w0.L[i].kind = "log" -> MetricsWriteHeader(i, m.code, w0)
              [] OTHER -> Dispatch(i + 1, m, w0)
  ELSE IF i > Len(w0.L) THEN BaseWrite(m.b, w0)
       ELSE CASE w0.L[i].kind = "gzip" -> GzipWrite(i, m.b, w0)
              [] w0.L[i].kind = "cache" -> CacheWrite(i, m.b, w0)
              [] w0.L[i].kind = "error" -> ErrorWrite(i, m.b, w0)
              [] w0.L[i].kind = "headers" -> HeadersWrite(i, m.b, w0)
              [] w0.L[i].kind = "log" -> MetricsWrite(i, m.b, w0)
              [] OTHER -> Dispatch(i + 1, m, w0)

\* Whether the i-th writer of the chain is an http.Flusher: gzipWrapper and
\* cacheControlWrapper declare Flush; errorHandlingWrapper, headersWrapper and
\* responseWriterWrapper embed the http.ResponseWriter interface and declare
\* none; past the last wrapper it is the transport's writer.
RECURSIVE IsFlusher(_, _)
IsFlusher(i, w0) ==
  IF i > Len(w0.L) THEN conf.flusher
  ELSE CASE w0.L[i].kind \in {"gzip", "cache"} -> TRUE
         [] w0.L[i].kind \in {"error", "headers", "log"} -> FALSE
         [] OTHER -> IsFlusher(i + 1, w0)

\* Flush on the i-th writer of the chain (gzipWrapper.Flush,
\* cacheControlWrapper.Flush): the wrapped writer is flushed if it is a
\* Flusher.
RECURSIVE FlushAt(_, _)
FlushAt(i, w0) ==
  IF i > Len(w0.L) THEN BaseFlush(w0)
  ELSE CASE w0.L[i].kind \in {"gzip", "cache"} ->
              IF IsFlusher(i + 1, w0) THEN FlushAt(i + 1, w0) ELSE w0
         [] OTHER -> FlushAt(i + 1, w0)

\* http.StatusText(http.StatusInternalServerError), as bytes
InternalServerErrorText ==
  <<73, 110, 116, 101, 114, 110, 97, 108, 32, 83, 101, 114, 118, 101, 114, 32,
    69, 114, 114, 111, 114>>

StatusInternalServerError == 500

StatusForbidden == 403

\* http.Error(w, error, code) on the j-th writer: fmt.Fprintln writes the
\* text and a newline.
HttpError(j, error, code, w0) ==
  LET w1 == [w0 EXCEPT !.hdr = HSet(HSet(@, "Content-Type", S.text_plain),
                                    "X-Content-Type-Options", S.nosniff)]
  IN WriteAt(j, error \o <<10>>, WriteHeaderAt(j, code, w1))

\* A faulty deferred function of Recover: it answers without calling the logger.
RecoverDeferredNoLog(i, w0) ==
  HttpError(i + 1, InternalServerErrorText, StatusInternalServerError,
            [w0 EXCEPT !.panicking = FALSE, !.recoveredAt = i])

\* The deferred function of Recover, reached by a panic: recover() ends the
\* panic, the logger is called, http.Error answers on Recover's own writer.
RecoverDeferred(i, w0) ==
  LET w1 == [w0 EXCEPT !.panicking = FALSE, !.recoveredAt = i,
                       !.panicLog = Append(@, [req |-> req,
                                               err |-> w0.panicValue])]
  IN HttpError(i + 1, InternalServerErrorText, StatusInternalServerError, w1)

(***************************************************************************)
(* Configurations.  One record holds the settings of every middleware; a    *)
(* middleware reads only its own.                                           *)
(*   mws           the middlewares of the chain, mws[1] nearest the handler *)
(*   gzipLevel     compressConfig.gzipLevel                                 *)
(*   check         compressConfig.compressionCheck: "nil", or "notSpecial"  *)
(*                 for the predicate r.URL.Path != "/special"               *)
(*   handlers      errorHandlerConfig.handlers: status code -> substitute   *)
(*   clearHeaders  errorHandlerConfig.clearHeaders                          *)
(*   headers       headersConfig.headers                                    *)
(*   cacheTimes    cacheControlConfig.cacheTimes                            *)
(*   flusher       whether the transport's writer is an http.Flusher        *)
(***************************************************************************)
Hour == 3600 * Second

Year == Hour * 24 * 365

\* gzip.DefaultCompression
DefaultCompression == -1

defaultCacheTimes ==
  [t \in {S.application_any, S.xml, S.atom, S.json, S.ldjson, S.audio_any,
          S.font_any, S.image_any, S.text_any, S.video_any} |->
     IF t \in {S.xml, S.atom, S.json, S.ldjson, S.text_any} THEN Hour ELSE Year]

customCacheTimes == (S.json :> 15) @@ (S.image_any :> 24 * Hour)

\* WithCacheTimes with a zero duration for one type beside its wildcard
zeroCacheTimes == (S.json :> 0) @@ (S.application_any :> Hour)

NoHandlers == [c \in {} |-> 0]

\* The substitute handlers of the model: whether the handler sets the header
\* X-Custom-Error, the status it sets (0: it calls no WriteHeader) and the
\* body it writes (empty: it calls no Write).
SubFull(code) == [hdr |-> TRUE, code |-> code, body |-> <<7, 7>>]

SubBodyOnly == [hdr |-> FALSE, code |-> 0, body |-> <<7>>]

SubSilent == [hdr |-> FALSE, code |-> 0, body |-> <<>>]

BaseConfig ==
  [mws |-> <<>>, gzipLevel |-> DefaultCompression, check |-> "nil",
   handlers |-> NoHandlers, clearHeaders |-> TRUE, headers |-> NoHeaders,
   cacheTimes |-> defaultCacheTimes, flusher |-> TRUE]

\* The levels WithGzipLevel is given: gzip's named levels HuffmanOnly (-2),
\* DefaultCompression (-1), NoCompression (0) and BestCompression (9), the
\* level of TestCompress_InvalidGzipLevel (15), and the two just outside.
GzipLevels == {-3, -2, DefaultCompression, 0, 9, 10, 15}

CompressConfigs ==
  {[BaseConfig EXCEPT !.mws = <<"compress">>, !.gzipLevel = l] : l \in GzipLevels}
  \cup {[BaseConfig EXCEPT !.mws = <<"compress">>, !.gzipLevel = l,
                           !.check = "notSpecial"] : l \in {DefaultCompression, 15}}

ErrorConfigs ==
  {[BaseConfig EXCEPT !.mws = <<"error">>]}
  \cup {[BaseConfig EXCEPT !.mws = <<"error">>, !.handlers = h, !.clearHeaders = c] :
          h \in {404 :> SubFull(404), 404 :> SubBodyOnly, 404 :> SubSilent,
                 (200 :> SubFull(200)) @@ (404 :> SubFull(404))},
          c \in BOOLEAN}

CacheConfigs ==
  {[BaseConfig EXCEPT !.mws = <<"cache">>, !.cacheTimes = t] :
     t \in {defaultCacheTimes, customCacheTimes, zeroCacheTimes}}

InjectedHeaders ==
  [NoHeaders EXCEPT !["X-Frame-Options"] = <<S.deny>>,
                    !["Cache-Control"] = <<S.nocache, S.nostore>>]

HeadersConfigs ==
  {[BaseConfig EXCEPT !.mws = <<"headers">>, !.headers = h] :
     h \in {NoHeaders, InjectedHeaders}}

\* Headers(...)(ErrorHandler(...)(handler)): the header-injection middleware
\* outside the error-substitution middleware.
ChainConfigs ==
  {[BaseConfig EXCEPT !.mws = <<"error", "headers">>, !.handlers = h,
                      !.clearHeaders = c, !.headers = InjectedHeaders] :
     h \in {404 :> SubFull(404), 404 :> SubBodyOnly, 404 :> SubSilent},
     c \in BOOLEAN}

\* TextLog(handler)
LogConfigs == {[BaseConfig EXCEPT !.mws = <<"log">>]}

\* Recover(handler)
RecoverConfigs == {[BaseConfig EXCEPT !.mws = <<"recover">>]}

\* Recover(Compress(WithGzipLevel(gzip.BestCompression))(handler)): Recover
\* outside the compression middleware.
RecoverCompressConfigs ==
  {[BaseConfig EXCEPT !.mws = <<"compress", "recover">>, !.gzipLevel = 9]}

\* CrossOriginProtection()(handler)
CrossOriginConfigs == {[BaseConfig EXCEPT !.mws = <<"crossorigin">>]}

\* A transport whose writer is no http.Flusher, under the two wrappers that
\* declare Flush
NoFlusherConfigs ==
  {[BaseConfig EXCEPT !.mws = <<m>>, !.flusher = FALSE] :
     m \in {"compress", "cache"}}

Configs ==
  CompressConfigs \cup ErrorConfigs \cup CacheConfigs \cup HeadersConfigs
  \cup ChainConfigs \cup LogConfigs \cup RecoverConfigs
  \cup CrossOriginConfigs \cup NoFlusherConfigs \cup RecoverCompressConfigs

(***************************************************************************)
(* Requests: the values of the Accept-Encoding header and the path.         *)
(***************************************************************************)
AcceptEncodings ==
  {<<>>, <<S.gzip>>, <<S.deflate_br>>, <<S.gzip_q0>>,
   <<S.gzip_q05, S.deflate_br>>, <<S.br_star_q01>>}

PlainRequest == [acceptEncoding |-> <<>>, path |-> "/", method |-> "GET",
                 secFetchSite |-> ""]

CompressRequests ==
  {[PlainRequest EXCEPT !.acceptEncoding = a] : a \in AcceptEncodings}
  \cup {[PlainRequest EXCEPT !.acceptEncoding = a, !.path = "/special"] :
          a \in {<<>>, <<S.gzip>>}}

\* The methods and the values of Sec-Fetch-Site ("" when the header is absent)
Methods == {"GET", "HEAD", "OPTIONS", "POST", "PUT", "DELETE", "PATCH", "TRACE"}

SecFetchSites == {"", "same-origin", "none", "cross-site", "same-site"}

CrossOriginRequests ==
  {[PlainRequest EXCEPT !.method = m, !.secFetchSite = f] :
     m \in Methods, f \in SecFetchSites}

Requests == CompressRequests \cup CrossOriginRequests

\* Only Compress and CrossOriginProtection read the request.  Every request
\* is served at the default level and at the level of
\* TestCompress_InvalidGzipLevel, three of them at the other levels.
RequestsOf(c) ==
  IF \E i \in 1..Len(c.mws) : c.mws[i] = "compress"
  THEN IF c.gzipLevel \in {DefaultCompression, 15} /\ c.flusher
       THEN CompressRequests
       ELSE {[PlainRequest EXCEPT !.acceptEncoding = a] :
               a \in {<<>>, <<S.gzip>>, <<S.br_star_q01>>}}
  ELSE IF \E i \in 1..Len(c.mws) : c.mws[i] = "crossorigin"
  THEN CrossOriginRequests
  ELSE {PlainRequest}

\* A Compress that never consults the predicate
CheckIgnored(r) == FALSE

\* config.compressionCheck != nil && !config.compressionCheck(r)
CheckDeclines(r) == conf.check # "nil" /\ ~(r.path # "/special")

\* A faulty test of the weights: a coding that is named counts as accepted.
AcceptsGzipAnyMention(r) ==
  LET encs == parseEncodings(r.acceptEncoding)
  IN S.gzip \in DOMAIN encs \/ S.star \in DOMAIN encs

\* encs["gzip"] > 0 || encs["*"] > 0
AcceptsGzip(r) ==
  LET encs == parseEncodings(r.acceptEncoding)
  IN Positive(Weight(encs, S.gzip)) \/ Positive(Weight(encs, S.star))

\* The writer Compress hands to the next handler: its own writer when the
\* predicate declines or the level is invalid, a gzipWrapper with a
\* compressor when gzip is accepted, a gzipWrapper without one otherwise.
Compress(r) ==
  IF CheckDeclines(r) THEN NewLayer("none")
  ELSE IF AcceptsGzip(r)
  THEN IF ~ValidGzipLevel(conf.gzipLevel) THEN NewLayer("none")
       ELSE [NewLayer("gzip") EXCEPT !.gz.on = TRUE]
  ELSE NewLayer("gzip")

\* The wrapper each middleware builds for the request.
MiddlewareLayer(kind, r) ==
  IF kind = "compress" THEN Compress(r) ELSE NewLayer(kind)

\* The deferred calls of the middlewares, run as control leaves them from the
\* innermost outwards: Compress defers writer.Close() when it made a writer,
\* Recover defers the function that recovers from a panic.
\* A Compress that does not defer writer.Close()
UnwindNoClose(i, w0) == w0

RECURSIVE Unwind(_, _)
Unwind(i, w0) ==
  IF i > Len(w0.L) THEN w0
  ELSE IF w0.L[i].kind = "gzip" /\ w0.L[i].gz.on
  THEN Unwind(i + 1, GzClose(i, w0))
  ELSE IF w0.L[i].kind = "recover" /\ w0.panicking
  THEN Unwind(i + 1, RecoverDeferred(i, w0))
  ELSE Unwind(i + 1, w0)

(***************************************************************************)
(* The operations of the handler.                                           *)
(***************************************************************************)
\* The headers the handler sets: for each middleware of the chain, the headers
\* that middleware reads or rewrites, and one it never looks at.
HeadersFor(kind) ==
  CASE kind = "compress" -> {<<"Content-Length", S.five>>, <<"Content-Encoding", S.br>>}
    [] kind = "error" -> {<<"X-Original-Header", S.original>>,
                          <<"Content-Type", S.json>>}
    [] kind = "cache" -> {<<"Content-Type", S.json_charset>>,
                          <<"Content-Type", S.webp>>,
                          <<"Cache-Control", S.nocache>>}
    [] kind = "headers" -> {<<"Cache-Control", S.nostore>>,
                            <<"X-Original-Header", S.original>>}
    [] kind = "log" -> {<<"Content-Type", S.json>>}
    [] kind = "recover" -> {<<"Content-Type", S.json>>}
    [] kind = "crossorigin" -> {<<"Content-Type", S.json>>}
    [] OTHER -> {}

HandlerHeaders ==
  UNION {HeadersFor(k) : k \in {"compress", "error", "cache", "headers", "log",
                                "recover", "crossorigin"}}

HandlerHeadersOf(c) == UNION {HeadersFor(c.mws[i]) : i \in 1..Len(c.mws)}

Payloads == {<<1>>, <<2, 2>>}

Op(op, k, v, c, d) == [op |-> op, k |-> k, v |-> v, c |-> c, d |-> d]

Init ==
  /\ conf \in Configs
  /\ req = PlainRequest
  /\ pc = "idle"
  /\ w = NewWorld
  /\ ops = <<>>
  /\ tokens = <<>>
  /\ accept = <<>>
  /\ codings = NoEncodings
  /\ ChainUnused
  /\ AddrUnused
  /\ SlashUnused

\* The statements of the middlewares after next.ServeHTTP has returned:
\* TextLog hands wrapped.status and wrapped.written to the sink.
RECURSIVE AfterServe(_, _)
AfterServe(i, w0) ==
  IF i > Len(w0.L) THEN w0
  ELSE IF w0.L[i].kind = "log"
  THEN AfterServe(i + 1,
         [w0 EXCEPT !.logged = Append(@, [status |-> w0.L[i].status,
                                          written |-> w0.L[i].written])])
  ELSE AfterServe(i + 1, w0)

\* A faulty CrossOriginProtection: an unsafe request without Sec-Fetch-Site
\* is denied too.
CrossOriginDeniedWithoutHeader(r) ==
  IF r.method = "GET" \/ r.method = "HEAD" \/ r.method = "OPTIONS" THEN FALSE
  ELSE r.secFetchSite # "same-origin" /\ r.secFetchSite # "none"

\* CrossOriginProtection: whether the request is answered 403
CrossOriginDenied(r) ==
  IF r.method = "GET" \/ r.method = "HEAD" \/ r.method = "OPTIONS" THEN FALSE
  ELSE /\ r.secFetchSite # "same-origin"
       /\ r.secFetchSite # "none"
       /\ r.secFetchSite # ""

\* The request reaches the chain: every middleware builds its wrapper and
\* calls the next handler, unless CrossOriginProtection answers 403 on its
\* own writer and returns.
Serve(r) ==
  /\ pc = "idle"
  /\ r \in RequestsOf(conf)
  /\ req' = r
  /\ LET w0 == [NewWorld EXCEPT
                  !.L = [i \in 1..Len(conf.mws) |-> MiddlewareLayer(conf.mws[i], r)]]
         denying == {i \in 1..Len(conf.mws) :
                       conf.mws[i] = "crossorigin" /\ CrossOriginDenied(r)}
     IN IF denying = {}
        THEN /\ pc' = "run"
             /\ w' = [w0 EXCEPT !.handled = TRUE]
        ELSE LET i == CHOOSE j \in denying : \A k \in denying : k <= j
                 w1 == WriteHeaderAt(i + 1, StatusForbidden,
                                     [w0 EXCEPT !.org = "middleware"])
             IN /\ pc' = "done"
                /\ w' = BaseImplicitCommit(AfterServe(i + 1, Unwind(i + 1, w1)))
  /\ UNCHANGED <<conf, ops>>
  /\ UNCHANGED <<parseVars, chainVars, addrVars, slashVars>>

\* w.Header().Set(k, v)
HandlerSetHeader(k, v) ==
  /\ pc = "run"
  /\ Len(ops) < MaxOps
  /\ <<k, v>> \in HandlerHeadersOf(conf)
  /\ w' = [w EXCEPT !.hdr = HSet(@, k, v)]
  /\ ops' = Append(ops, Op("set", k, v, 0, <<>>))
  /\ UNCHANGED <<conf, req, pc>>
  /\ UNCHANGED <<parseVars, chainVars, addrVars, slashVars>>

\* w.WriteHeader(code)
HandlerWriteHeader(code) ==
  /\ pc = "run"
  /\ Len(ops) < MaxOps
  /\ w' = WriteHeaderAt(1, code, w)
  /\ ops' = Append(ops, Op("wh", "", <<>>, code, <<>>))
  /\ UNCHANGED <<conf, req, pc>>
  /\ UNCHANGED <<parseVars, chainVars, addrVars, slashVars>>

\* w.Write(b)
HandlerWrite(b) ==
  /\ pc = "run"
  /\ Len(ops) < MaxOps
  /\ w' = WriteAt(1, b, w)
  /\ ops' = Append(ops, Op("w", "", <<>>, 0, b))
  /\ UNCHANGED <<conf, req, pc>>
  /\ UNCHANGED <<parseVars, chainVars, addrVars, slashVars>>

\* if f, ok := w.(http.Flusher); ok { f.Flush() }
HandlerFlush ==
  /\ pc = "run"
  /\ Len(ops) < MaxOps
  /\ w' = IF IsFlusher(1, w) THEN FlushAt(1, w) ELSE w
  /\ ops' = Append(ops, Op("flush", "", <<>>, 0, <<>>))
  /\ UNCHANGED <<conf, req, pc>>
  /\ UNCHANGED <<parseVars, chainVars, addrVars, slashVars>>

\* The handler returns: the deferred calls and the statements after
\* next.ServeHTTP run, and the server commits the response if nothing did.
HandlerReturn ==
  /\ pc = "run"
  /\ pc' = "done"
  /\ w' = BaseImplicitCommit(AfterServe(1, Unwind(1, [w EXCEPT !.org = "defer"])))
  /\ UNCHANGED <<conf, req, ops>>
  /\ UNCHANGED <<parseVars, chainVars, addrVars, slashVars>>

\* The values the handler panics with
PanicValues == {"something went wrong", "custom error"}

\* Only Recover looks at the value.
PanicValuesOf(c) ==
  IF \E i \in 1..Len(c.mws) : c.mws[i] = "recover" THEN PanicValues
  ELSE {"something went wrong"}

\* A Compress that closes the writer after next.ServeHTTP instead of
\* deferring the call: a panic passes it by.
HandlerPanicNoDefer ==
  /\ pc = "run"
  /\ pc' = "panicked"
  /\ UNCHANGED <<conf, req, w, ops>>
  /\ UNCHANGED <<parseVars, chainVars, addrVars, slashVars>>

\* The handler panics: the deferred calls run; the panic leaves the chain, or
\* Recover ends it and the middlewares outside Recover go on as after a return.
HandlerPanic ==
  /\ pc = "run"
  /\ \E e \in PanicValuesOf(conf) :
       LET u == Unwind(1, [w EXCEPT !.org = "defer", !.panicking = TRUE,
                                    !.panicValue = e])
       IN IF u.panicking
          THEN pc' = "panicked" /\ w' = u
          ELSE /\ pc' = "done"
               /\ w' = BaseImplicitCommit(AfterServe(u.recoveredAt + 1, u))
  /\ UNCHANGED <<conf, req, ops>>
  /\ UNCHANGED <<parseVars, chainVars, addrVars, slashVars>>

Next ==
  \/ \E r \in Requests : Serve(r)
  \/ \E h \in HandlerHeaders : HandlerSetHeader(h[1], h[2])
  \/ \E c \in Codes : HandlerWriteHeader(c)
  \/ \E b \in Payloads : HandlerWrite(b)
  \/ HandlerFlush
  \/ HandlerReturn
  \/ HandlerPanic

Spec == Init /\ [][Next]_vars

(***************************************************************************)
(* parseEncodings on its own: the header values are put together from       *)
(* comma-separated parts, then parsed.                                      *)
(***************************************************************************)
\* The parts: those of TestParseEncodings, an empty part and an empty q value
Parts ==
  {S.gzip, S.GZIP_sp, S.gzip_q0, S.gzip_q05, S.gzip_qbad, S.gzip_q0123,
   S.star_q01, S.sp_br_q09, S.Deflate, S.deflate_q, <<>>}

RECURSIVE Flatten(_)
Flatten(ss) == IF ss = <<>> THEN <<>> ELSE Head(ss) \o Flatten(Tail(ss))

ParseInit ==
  /\ conf = BaseConfig
  /\ req = PlainRequest
  /\ pc = "parse"
  /\ w = NewWorld
  /\ ops = <<>>
  /\ tokens = <<>>
  /\ accept = <<>>
  /\ codings = NoEncodings
  /\ ChainUnused
  /\ AddrUnused
  /\ SlashUnused

\* One more value of the Accept-Encoding header, holding one part
AddValue(p) ==
  /\ pc = "parse"
  /\ Len(Flatten(tokens)) < MaxParts
  /\ tokens' = Append(tokens, <<p>>)
  /\ accept' = Append(accept, p)
  /\ UNCHANGED <<conf, req, pc, w, ops, codings>>
  /\ UNCHANGED <<chainVars, addrVars, slashVars>>

\* One more part in the last value of the header
AddPart(p) ==
  /\ pc = "parse"
  /\ tokens # <<>>
  /\ Len(Flatten(tokens)) < MaxParts
  /\ tokens' = [tokens EXCEPT ![Len(tokens)] = Append(@, p)]
  /\ accept' = [accept EXCEPT ![Len(accept)] = @ \o <<",">> \o p]
  /\ UNCHANGED <<conf, req, pc, w, ops, codings>>
  /\ UNCHANGED <<chainVars, addrVars, slashVars>>

\* encs := parseEncodings(r.Header.Values("Accept-Encoding"))
CallParseEncodings ==
  /\ pc = "parse"
  /\ codings' = parseEncodings(accept)
  /\ pc' = "parsed"
  /\ UNCHANGED <<conf, req, w, ops, tokens, accept>>
  /\ UNCHANGED <<chainVars, addrVars, slashVars>>

ParseNext ==
  \/ \E p \in Parts : AddValue(p)
  \/ \E p \in Parts : AddPart(p)
  \/ CallParseEncodings

SpecParse == ParseInit /\ [][ParseNext]_vars

(***************************************************************************)
(* Chain on its own: one handler composed from conf.middleware serves       *)
(* several requests, each in its own goroutine.  The middlewares are those  *)
(* of TestChain_MiddlewareExecutionOrder: middleware id appends id to order *)
(* and calls next; the innermost handler appends 0.  The composed handler   *)
(* reads and assigns the captured variable next without synchronisation, so *)
(* the evaluation of m(next) and the assignment to next are separate steps. *)
(***************************************************************************)
\* m(next) for m = createMiddleware(id)
Wrap(id, h) == <<id>> \o h

\* What h.ServeHTTP appends to order
ServeOrder(h) == h \o <<0>>

NewRequestState == [at |-> "idle", i |-> 0, h |-> <<>>, order |-> <<>>]

ChainInit ==
  /\ conf = BaseConfig
  /\ req = PlainRequest
  /\ pc = "chain"
  /\ w = NewWorld
  /\ ops = <<>>
  /\ tokens = <<>>
  /\ accept = <<>>
  /\ codings = NoEncodings
  /\ middleware \in {[k \in 1..n |-> k] : n \in 0..MaxMiddleware}
  /\ next = <<>>
  /\ served = [p \in 1..MaxRequests |-> NewRequestState]
  /\ AddrUnused
  /\ SlashUnused

\* The server calls the composed handler for request p
ChainBegin(p) ==
  /\ pc = "chain"
  /\ served[p].at = "idle"
  /\ served' = [served EXCEPT ![p].at = "loop", ![p].i = 1]
  /\ UNCHANGED <<conf, req, pc, w, ops, parseVars, addrVars, slashVars, middleware, next>>

\* for _, m := range conf.middleware: the right-hand side m(next)
ChainApply(p) ==
  /\ pc = "chain"
  /\ served[p].at = "loop"
  /\ served[p].i <= Len(middleware)
  /\ served' = [served EXCEPT ![p].at = "assign",
                              ![p].h = Wrap(middleware[served[p].i], next)]
  /\ UNCHANGED <<conf, req, pc, w, ops, parseVars, addrVars, slashVars, middleware, next>>

\* next = m(next): the assignment to the captured variable
ChainAssign(p) ==
  /\ pc = "chain"
  /\ served[p].at = "assign"
  /\ next' = served[p].h
  /\ served' = [served EXCEPT ![p].at = "loop", ![p].i = @ + 1]
  /\ UNCHANGED <<conf, req, pc, w, ops, parseVars, addrVars, slashVars, middleware>>

\* next.ServeHTTP(w, req) after the loop
ChainServe(p) ==
  /\ pc = "chain"
  /\ served[p].at = "loop"
  /\ served[p].i > Len(middleware)
  /\ served' = [served EXCEPT ![p].at = "done", ![p].order = ServeOrder(next)]
  /\ UNCHANGED <<conf, req, pc, w, ops, parseVars, addrVars, slashVars, middleware, next>>

ChainNext ==
  \/ \E p \in 1..MaxRequests : ChainBegin(p)
  \/ \E p \in 1..MaxRequests : ChainApply(p)
  \/ \E p \in 1..MaxRequests : ChainAssign(p)
  \/ \E p \in 1..MaxRequests : ChainServe(p)

SpecChain == ChainInit /\ [][ChainNext]_vars

(***************************************************************************)
(* RealAddress on its own.  An address is text; a parsed net.IP is the      *)
(* tuple of its bytes and nil is the empty tuple.  The hop texts of the     *)
(* model are dotted-decimal IPv4 addresses, with or without a port, and     *)
(* texts that are no address: none holds an IPv6 literal or a bracket, and  *)
(* no field has a leading zero.                                             *)
(***************************************************************************)
\* One field of a dotted-decimal address: 1 to 3 digits, at most 255
IsIPv4Field(f) ==
  /\ Len(f) \in 1..3
  /\ \A i \in 1..Len(f) : IsDigit(f[i])
  /\ DigitsVal(f) <= 255

\* net.ParseIP on a text without IPv6 literal
ParseIP(s) ==
  LET fields == Split(s, ".")
  IN IF Len(fields) = 4 /\ \A i \in 1..4 : IsIPv4Field(fields[i])
     THEN [i \in 1..4 |-> DigitsVal(fields[i])]
     ELSE <<>>

\* net.SplitHostPort on a text without brackets: the host before the last
\* colon; an error when there is no colon or the host holds another one
SplitHostPort(s) ==
  LET idx == {i \in 1..Len(s) : s[i] = ":"}
  IN IF idx = {} THEN [host |-> <<>>, err |-> TRUE]
     ELSE LET k == CHOOSE i \in idx : \A j \in idx : j <= i
              host == SubSeq(s, 1, k - 1)
          IN IF \E i \in 1..Len(host) : host[i] = ":"
             THEN [host |-> <<>>, err |-> TRUE]
             ELSE [host |-> host, err |-> FALSE]

\* A faulty parseAddress: the text is handed to net.ParseIP as it is
parseAddressNoPort(address) == ParseIP(address)

parseAddress(address) ==
  LET hp == SplitHostPort(address)
  IN IF ~hp.err THEN ParseIP(hp.host) ELSE ParseIP(address)

RECURSIVE Pow2(_)
Pow2(n) == IF n = 0 THEN 1 ELSE 2 * Pow2(n - 1)

\* The number of mask bits that fall into byte i of a prefix of length ones
MaskBits(ones, i) ==
  IF ones >= 8 * i THEN 8
  ELSE IF ones <= 8 * (i - 1) THEN 0
  ELSE ones - 8 * (i - 1)

\* A faulty IPNet.Contains: the prefix length is rounded down to whole bytes
ContainsWholeBytes(n, ip) ==
  /\ Len(ip) = Len(n.ip)
  /\ \A i \in 1..Len(ip) : 8 * i <= n.ones => n.ip[i] = ip[i]

\* net.IPNet.Contains: the addresses have the same length and agree on the
\* bits of the mask
Contains(n, ip) ==
  /\ Len(ip) = Len(n.ip)
  /\ \A i \in 1..Len(ip) :
        n.ip[i] \div Pow2(8 - MaskBits(n.ones, i)) =
        ip[i] \div Pow2(8 - MaskBits(n.ones, i))

IPv6Loopback == [i \in 1..16 |-> IF i = 16 THEN 1 ELSE 0]
IPv6UniqueLocal == [i \in 1..16 |-> IF i = 1 THEN 252 ELSE 0]

defaultTrustedProxies ==
  << [ip |-> <<10, 0, 0, 0>>, ones |-> 8],
     [ip |-> <<127, 0, 0, 0>>, ones |-> 8],
     [ip |-> <<172, 16, 0, 0>>, ones |-> 12],
     [ip |-> <<192, 168, 0, 0>>, ones |-> 16],
     [ip |-> IPv6Loopback, ones |-> 128],
     [ip |-> IPv6UniqueLocal, ones |-> 7] >>

\* The trusted proxies of TestRealAddress "custom trusted proxies"
customTrustedProxies ==
  << [ip |-> <<203, 0, 113, 0>>, ones |-> 24],
     [ip |-> <<198, 51, 100, 0>>, ones |-> 24] >>

\* The configurations: the default, WithTrustedProxies of two public
\* networks, WithTrustedProxies of the empty list
TrustedProxyConfigs == {defaultTrustedProxies, customTrustedProxies, <<>>}

\* A faulty collation: the peer is put before the forwarded entries
RECURSIVE collateForwardedHopsPeerFirst(_, _)
collateForwardedHopsPeerFirst(values, remote) ==
  IF values = <<>> THEN <<remote>>
  ELSE LET hops == Split(values[Len(values)], ",")
       IN collateForwardedHopsPeerFirst(SubSeq(values, 1, Len(values) - 1), remote)
          \o [i \in 1..Len(hops) |-> TrimSpace(hops[i])]

\* The hops of the values of X-Forwarded-For followed by r.RemoteAddr
RECURSIVE collateForwardedHops(_, _)
collateForwardedHops(values, remote) ==
  IF values = <<>> THEN <<remote>>
  ELSE LET hops == Split(Head(values), ",")
       IN [i \in 1..Len(hops) |-> TrimSpace(hops[i])]
          \o collateForwardedHops(Tail(values), remote)

\* A faulty scan: an unparsable hop is returned itself
RECURSIVE ScanHopsKeepsBad(_, _, _)
ScanHopsKeepsBad(hops, trusted, i) ==
  IF i < 1 THEN [panic |-> FALSE, addr |-> hops[1]]
  ELSE LET ip == parseAddress(hops[i])
       IN IF ip = <<>> THEN [panic |-> FALSE, addr |-> hops[i]]
          ELSE IF \E j \in 1..Len(trusted) : Contains(trusted[j], ip)
               THEN ScanHopsKeepsBad(hops, trusted, i - 1)
               ELSE [panic |-> FALSE, addr |-> hops[i]]

\* The loop of selectRealAddress from index i down; hops[i+1] past the end
\* of the slice is an index-out-of-range panic
RECURSIVE ScanHops(_, _, _)
ScanHops(hops, trusted, i) ==
  IF i < 1 THEN [panic |-> FALSE, addr |-> hops[1]]
  ELSE LET ip == parseAddress(hops[i])
       IN IF ip = <<>>
          THEN IF i + 1 > Len(hops)
               THEN [panic |-> TRUE, addr |-> <<>>]
               ELSE [panic |-> FALSE, addr |-> hops[i + 1]]
          ELSE IF \E j \in 1..Len(trusted) : Contains(trusted[j], ip)
               THEN ScanHops(hops, trusted, i - 1)
               ELSE [panic |-> FALSE, addr |-> hops[i]]

selectRealAddress(hops, trusted) == ScanHops(hops, trusted, Len(hops))

\* The entries of X-Forwarded-For: the text in the header and the hop it
\* stands for
ForwardedEntries ==
  { [raw |-> S.ip_203_0_113_1, hop |-> S.ip_203_0_113_1],
    [raw |-> <<" ">> \o S.ip_198_51_100_1, hop |-> S.ip_198_51_100_1],
    [raw |-> S.ip_192_168_1_100, hop |-> S.ip_192_168_1_100],
    [raw |-> S.ip_10_0_0_1_p4711 \o <<" ">>, hop |-> S.ip_10_0_0_1_p4711],
    [raw |-> S.ip_172_32_0_1, hop |-> S.ip_172_32_0_1],
    [raw |-> S.invalid_ip, hop |-> S.invalid_ip],
    [raw |-> <<>>, hop |-> <<>>] }

\* The peer addresses: two of TestRealAddress, the last address of
\* 172.16.0.0/12 and "@", the address of a peer on a unix-domain socket
PeerAddresses ==
  {S.ip_192_168_1_1_p8080, S.ip_203_0_113_50_p8080,
   S.ip_172_31_255_255_p8080, S.at}

\* The peers each configuration is run with
PeersOf(trusted) ==
  IF trusted = defaultTrustedProxies THEN PeerAddresses
  ELSE {S.ip_192_168_1_1_p8080, S.ip_203_0_113_50_p8080}

AddrInit ==
  /\ conf = BaseConfig
  /\ req = PlainRequest
  /\ pc = "addr"
  /\ w = NewWorld
  /\ ops = <<>>
  /\ tokens = <<>>
  /\ accept = <<>>
  /\ codings = NoEncodings
  /\ ChainUnused
  /\ SlashUnused
  /\ trustedProxies \in TrustedProxyConfigs
  /\ peer \in PeersOf(trustedProxies)
  /\ remoteAddr = peer
  /\ forwardedFor = <<>>
  /\ entries = <<>>

\* req.Header.Add("X-Forwarded-For", ...): one more value, of one entry
AddForwardedValue(e) ==
  /\ pc = "addr"
  /\ Len(entries) < MaxHops
  /\ forwardedFor' = Append(forwardedFor, e.raw)
  /\ entries' = Append(entries, e.hop)
  /\ UNCHANGED <<conf, req, pc, w, ops, parseVars, chainVars, slashVars>>
  /\ UNCHANGED <<trustedProxies, peer, remoteAddr>>

\* One more entry in the last value of X-Forwarded-For
AddForwardedEntry(e) ==
  /\ pc = "addr"
  /\ forwardedFor # <<>>
  /\ Len(entries) < MaxHops
  /\ forwardedFor' =
       [forwardedFor EXCEPT ![Len(forwardedFor)] = @ \o <<",">> \o e.raw]
  /\ entries' = Append(entries, e.hop)
  /\ UNCHANGED <<conf, req, pc, w, ops, parseVars, chainVars, slashVars>>
  /\ UNCHANGED <<trustedProxies, peer, remoteAddr>>

\* The handler of RealAddress: r.RemoteAddr = selectRealAddress(...), then
\* next.ServeHTTP; a panic of selectRealAddress leaves the handler
CallRealAddress ==
  /\ pc = "addr"
  /\ LET res == selectRealAddress(collateForwardedHops(forwardedFor, remoteAddr),
                                  trustedProxies)
     IN IF res.panic
        THEN pc' = "panicked" /\ UNCHANGED remoteAddr
        ELSE pc' = "served" /\ remoteAddr' = res.addr
  /\ UNCHANGED <<conf, req, w, ops, parseVars, chainVars, slashVars>>
  /\ UNCHANGED <<trustedProxies, peer, forwardedFor, entries>>

AddrNext ==
  \/ \E e \in ForwardedEntries : AddForwardedValue(e)
  \/ \E e \in ForwardedEntries : AddForwardedEntry(e)
  \/ CallRealAddress

SpecAddr == AddrInit /\ [][AddrNext]_vars

(***************************************************************************)
(* StripTrailingSlashes on its own: the path of the request is put together *)
(* character by character, then the middleware's handler is called.         *)
(***************************************************************************)
\* The path StripTrailingSlashes hands to the next handler
StripTrailingSlashes(path) ==
  IF path # <<"/">> /\ HasSuffix(path, <<"/">>)
  THEN TrimSuffix(path, <<"/">>)
  ELSE path

\* The characters of a path after its leading slash
PathChars == {"/", "a", "b"}

\* The query strings: none, and one that ends with a slash
RawQueries == {<<>>, <<"q", "=", "/">>}

SlashInit ==
  /\ conf = BaseConfig
  /\ req = PlainRequest
  /\ pc = "slash"
  /\ w = NewWorld
  /\ ops = <<>>
  /\ tokens = <<>>
  /\ accept = <<>>
  /\ codings = NoEncodings
  /\ ChainUnused
  /\ AddrUnused
  /\ givenPath = <<"/">>
  /\ urlPath = <<"/">>
  /\ rawQuery \in RawQueries

\* httptest.NewRequest("GET", target, nil): one more character in the path
ExtendPath(c) ==
  /\ pc = "slash"
  /\ Len(givenPath) < MaxPathLen
  /\ givenPath' = Append(givenPath, c)
  /\ urlPath' = Append(urlPath, c)
  /\ UNCHANGED <<conf, req, pc, w, ops, parseVars, chainVars, addrVars, rawQuery>>

\* The handler of StripTrailingSlashes: the path is rewritten, then
\* next.ServeHTTP is called
CallStripTrailingSlashes ==
  /\ pc = "slash"
  /\ pc' = "served"
  /\ urlPath' = StripTrailingSlashes(urlPath)
  /\ UNCHANGED <<conf, req, w, ops, parseVars, chainVars, addrVars>>
  /\ UNCHANGED <<givenPath, rawQuery>>

SlashNext ==
  \/ \E c \in PathChars : ExtendPath(c)
  \/ CallStripTrailingSlashes

SpecSlash == SlashInit /\ [][SlashNext]_vars

(***************************************************************************)
(* What the trace says: the bytes the handler wrote, the bytes the          *)
(* transport received, the headers as the handler alone set them.           *)
(***************************************************************************)
RECURSIVE HandlerBytes(_)
HandlerBytes(o) ==
  IF o = <<>> THEN <<>>
  ELSE (IF Head(o).op = "w" THEN Head(o).d ELSE <<>>) \o HandlerBytes(Tail(o))

RECURSIVE ReceivedBytes(_)
ReceivedBytes(e) ==
  IF e = <<>> THEN <<>>
  ELSE (IF Head(e).t = "bW" THEN Head(e).d ELSE <<>>) \o ReceivedBytes(Tail(e))

RECURSIVE HandlerHdr(_)
HandlerHdr(o) ==
  IF o = <<>> THEN NoHeaders
  ELSE LET h == HandlerHdr(SubSeq(o, 1, Len(o) - 1))
       IN IF Last(o).op = "set" THEN HSet(h, Last(o).k, Last(o).v) ELSE h

\* The handler's calls of WriteHeader and Write, in order
Calls(o) == SelectSeq(o, LAMBDA x : x.op \in {"wh", "w"})

ExplicitCommits(o) == SelectSeq(o, LAMBDA x : x.op = "wh")

\* The handler's calls of WriteHeader, Write and Flush, in order
Outputs(o) == SelectSeq(o, LAMBDA x : x.op \in {"wh", "w", "flush"})

\* The handler's first output is a WriteHeader or a Write, or its Flush came
\* to nothing because the transport has none
FirstOutputIsCall ==
  /\ Calls(ops) # <<>>
  /\ (Outputs(ops)[1].op = "flush" => ~conf.flusher)

\* The step is the handler's call of the given operation
HandlerDid(kinds) ==
  /\ pc = "run"
  /\ Len(ops') = Len(ops) + 1
  /\ Last(ops').op \in kinds

Decorators == {"gzip", "cache", "error", "headers"}

Decorated == pc # "idle" /\ Len(w.L) = 1 /\ w.L[1].kind \in Decorators

Values(vs) == {vs[i] : i \in 1..Len(vs)}

\* The requests of the model whose Accept-Encoding gives gzip or * a positive
\* weight, and those that do not, by the header's meaning.
GzipAccepted == {<<S.gzip>>, <<S.gzip_q05, S.deflate_br>>, <<S.br_star_q01>>}

GzipDeclined == {<<>>, <<S.deflate_br>>, <<S.gzip_q0>>}

\* The chain is the error-substitution middleware alone
ErrorOnly == pc # "idle" /\ conf.mws = <<"error">>

FirstCommitRegistered ==
  /\ ErrorOnly
  /\ w.L[1].commits # <<>>
  /\ w.L[1].commits[1] \in DOMAIN conf.handlers

\* The headers after substitute handler h has run on the headers before
SubstituteHeaders(h, before) ==
  IF h.hdr THEN HSet(before, "X-Custom-Error", S.errorpage) ELSE before

\* The chain is the compression middleware alone
CompressOnly == pc # "idle" /\ conf.mws = <<"compress">>

\* The chain is the header-injection middleware alone
HeadersOnly == pc # "idle" /\ conf.mws = <<"headers">>

\* The chain is the error-substitution middleware inside the
\* header-injection middleware
ErrorInsideHeaders == pc # "idle" /\ conf.mws = <<"error", "headers">>

\* The chain is TextLog alone
LogOnly == pc # "idle" /\ conf.mws = <<"log">>

\* Every configured header value is among the values the response was sent
\* with
ConfiguredHeadersSent ==
  \A k \in HeaderKeys : Values(conf.headers[k]) \subseteq Values(w.sent[k])

\* The chain is Recover alone
RecoverOnly == pc # "idle" /\ conf.mws = <<"recover">>

\* The chain is CrossOriginProtection alone
CrossOriginOnly == pc # "idle" /\ conf.mws = <<"crossorigin">>

\* The handler has panicked
Panicked == w.panicValue # ""

\* The handler has made the transport commit: by a WriteHeader, a Write or a
\* Flush on the transport's own writer
CommittedByHandler ==
  \E i \in 1..Len(ops) :
    ops[i].op \in {"wh", "w"} \/ (ops[i].op = "flush" /\ conf.flusher)

\* "Internal Server Error\n"
ErrorBody ==
  <<73, 110, 116, 101, 114, 110, 97, 108, 32, 83, 101, 114, 118, 101, 114, 32,
    69, 114, 114, 111, 114, 10>>

\* The codes of the WriteHeader calls the transport received, in order
RECURSIVE ReceivedCodes(_)
ReceivedCodes(e) ==
  IF e = <<>> THEN <<>>
  ELSE (IF Head(e).t = "bWH" THEN <<Head(e).c>> ELSE <<>>) \o ReceivedCodes(Tail(e))

\* What each address text of the model is: an address of a private network,
\* of 203.0.113.0/24, of 198.51.100.0/24, of another public network, or no
\* address at all
HopKind(h) ==
  CASE h \in {S.ip_192_168_1_100, S.ip_10_0_0_1_p4711,
              S.ip_192_168_1_1_p8080, S.ip_172_31_255_255_p8080} -> "private"
    [] h \in {S.ip_203_0_113_1, S.ip_203_0_113_50_p8080} -> "net203"
    [] h = S.ip_198_51_100_1 -> "net198"
    [] h = S.ip_172_32_0_1 -> "public"
    [] OTHER -> "bad"

\* The kinds of address the configured prefixes hold
TrustedKinds ==
  IF trustedProxies = defaultTrustedProxies THEN {"private"}
  ELSE IF trustedProxies = customTrustedProxies THEN {"net203", "net198"}
  ELSE {}

HopClass(h) ==
  IF HopKind(h) = "bad" THEN "bad"
  ELSE IF HopKind(h) \in TrustedKinds THEN "trusted"
  ELSE "untrusted"

\* The hop list: the forwarded entries in header order, then the peer
Hops == entries \o <<peer>>

\* The hops that are not trusted addresses, and the one nearest the peer
NotTrusted == {i \in 1..Len(Hops) : HopClass(Hops[i]) # "trusted"}
Decider == CHOOSE i \in NotTrusted : \A j \in NotTrusted : j <= i

\* RealAddress has handled the request
Resolved == pc \in {"served", "panicked"}

\* The chain is the cache-policy middleware alone
CacheOnly == pc # "idle" /\ conf.mws = <<"cache">>

\* The step is a call by the handler that runs the commit of the wrapper
\* handed to it
HandlerCommits ==
  /\ HandlerDid({"wh", "w"})
  /\ Len(w'.L[1].commits) = Len(w.L[1].commits) + 1

\* The step commits the response on the transport
TransportCommits == ~w.committed /\ w'.committed

\* No predicate is configured, or the configured one returns true for the
\* request
PredicateAllows == conf.check = "nil" \/ req.path # "/special"

\* The levels compress/gzip accepts: HuffmanOnly, DefaultCompression,
\* NoCompression and 1 to 9
GzipAcceptedLevels == -2..9

(***************************************************************************)
(* C1.  On each of the four decorators, when the handler's first call is a  *)
(* Write, the decorator's own commit has run with status 200 before any     *)
(* body byte reached the transport, and the commit has run once for that    *)
(* Write plus once per explicit WriteHeader: no later Write runs it again.  *)
(***************************************************************************)
C1_ImplicitCommitOnce ==
  (Decorated /\ Calls(ops) # <<>> /\ Calls(ops)[1].op = "w") =>
     /\ w.L[1].commits # <<>>
     /\ w.L[1].commits[1] = StatusOK
     /\ Len(w.L[1].commits) = 1 + Len(ExplicitCommits(ops))
     /\ \A j \in 1..Len(w.ev) :
          w.ev[j].t = "bW" =>
            \E k \in 1..(j - 1) :
              w.ev[k].t = "commit" /\ w.ev[k].l = 1 /\ w.ev[k].c = StatusOK

C1_Witness ==
  /\ Decorated
  /\ w.L[1].kind = "cache"
  /\ Len(ops) = 2 /\ ops[1].op = "w" /\ ops[2].op = "w"
  /\ w.L[1].commits = <<StatusOK>>
  /\ w.body = ops[1].d \o ops[2].d

C3_OnlySubstituteOutput ==
  FirstCommitRegistered =>
     /\ \A j \in 1..Len(w.ev) :
          w.ev[j].t \in {"bWH", "bW"} => w.ev[j].o = "substitute"
     /\ w.body = conf.handlers[w.L[1].commits[1]].body

(***************************************************************************)
(* C4.  When a commit triggers substitution, the substitute handler starts  *)
(* with no header at all if clearHeaders is set, and with every header as   *)
(* it was before the commit if it is not; the headers then emitted are      *)
(* those, plus what the substitute sets.                                    *)
(***************************************************************************)
C4_HeadersAtSubstitution ==
  [][(ErrorOnly /\ HandlerDid({"wh", "w"}) /\ w'.subRuns = w.subRuns + 1) =>
       LET start == IF conf.clearHeaders THEN NoHeaders ELSE w.hdr
           h == conf.handlers[Last(w'.L[1].commits)]
       IN /\ w'.subHdr = start
          /\ (~w.committed /\ w'.committed) =>
               w'.sent = SubstituteHeaders(h, start)]_vars

C4_Witness ==
  /\ ErrorOnly
  /\ conf.clearHeaders
  /\ Len(ops) = 2 /\ ops[1].op = "set" /\ ops[2].op = "wh"
  /\ w.subRuns = 1
  /\ w.subHdr = NoHeaders
  /\ w.committed
  /\ w.sent = HSet(NoHeaders, "X-Custom-Error", S.errorpage)

C4_WitnessKept ==
  /\ ErrorOnly
  /\ ~conf.clearHeaders
  /\ Len(ops) = 2 /\ ops[1].op = "set" /\ ops[2].op = "wh"
  /\ w.subRuns = 1
  /\ w.subHdr = HandlerHdr(ops)
  /\ w.subHdr # NoHeaders

(***************************************************************************)
(* C5.  Passthrough: when the code of the handler's first commit has no     *)
(* registered substitute, the transport has that status, has received       *)
(* exactly the bytes the handler wrote, in order, and the headers are as    *)
(* the handler set them.                                                    *)
(***************************************************************************)
C5_Passthrough ==
  (ErrorOnly /\ w.L[1].commits # <<>>
     /\ w.L[1].commits[1] \notin DOMAIN conf.handlers) =>
     /\ w.status = w.L[1].commits[1]
     /\ ReceivedBytes(w.ev) = HandlerBytes(ops)
     /\ w.body = HandlerBytes(ops)
     /\ w.hdr = HandlerHdr(ops)

(***************************************************************************)
(* C6.  In the substituted state a Write on the error-substitution          *)
(* decorator returns the length of its argument and no error, and the       *)
(* transport receives nothing.                                              *)
(***************************************************************************)
C6_DroppedWriteSucceeds ==
  [][(ErrorOnly /\ w.L[1].drop /\ HandlerDid({"w"})) =>
       /\ w'.ret = [n |-> Len(Last(ops').d), err |-> FALSE]
       /\ w'.body = w.body
       /\ w'.ev = w.ev]_vars

C6_Witness ==
  /\ ErrorOnly
  /\ w.L[1].drop
  /\ Len(ops) = 2 /\ ops[1].op = "wh" /\ ops[2].op = "w"
  /\ Len(ops[2].d) = 2
  /\ w.ret = [n |-> 2, err |-> FALSE]
  /\ w.body = <<7>>

(***************************************************************************)
(* C7.  When the request's Accept-Encoding gives neither gzip nor * a       *)
(* positive weight, the transport receives exactly the bytes the handler    *)
(* wrote, in order, and Content-Encoding is as the handler left it.         *)
(***************************************************************************)
C7_DeclinedIsVerbatim ==
  (CompressOnly /\ req.acceptEncoding \in GzipDeclined) =>
     /\ ReceivedBytes(w.ev) = HandlerBytes(ops)
     /\ w.body = HandlerBytes(ops)
     /\ w.hdr["Content-Encoding"] = HandlerHdr(ops)["Content-Encoding"]
     /\ S.gzip \notin Values(w.sent["Content-Encoding"])

C7_Witness ==
  /\ CompressOnly
  /\ pc = "done"
  /\ req.acceptEncoding = <<S.gzip_q0>>
  /\ conf.gzipLevel = DefaultCompression
  /\ Len(ops) = 2
  /\ w.body = <<1, 2, 2>>
  /\ w.sent["Content-Encoding"] = <<>>

(***************************************************************************)
(* C8.  Round trip: when the request accepts gzip, the level is one the     *)
(* compressor accepts and the predicate does not decline, then after the    *)
(* middleware has returned the body the transport holds decompresses to     *)
(* exactly the bytes the handler wrote.                                     *)
(***************************************************************************)
C8_RoundTrip ==
  (CompressOnly /\ pc = "done" /\ req.acceptEncoding \in GzipAccepted
     /\ ValidGzipLevel(conf.gzipLevel) /\ ~CheckDeclines(req)) =>
     Gunzip(w.body) = [ok |-> TRUE, data |-> HandlerBytes(ops)]

\* C8 as it was stated: for every request that accepts gzip.
C8_RoundTripEveryRequest ==
  (CompressOnly /\ pc = "done" /\ req.acceptEncoding \in GzipAccepted) =>
     Gunzip(w.body) = [ok |-> TRUE, data |-> HandlerBytes(ops)]

C8_Witness ==
  /\ CompressOnly
  /\ pc = "done"
  /\ req.acceptEncoding = <<S.br_star_q01>>
  /\ Len(ops) = 3 /\ \A i \in 1..3 : ops[i].op = "w"
  /\ HandlerBytes(ops) = <<2, 2, 1, 2, 2>>
  /\ Gunzip(w.body).ok
  /\ Gunzip(w.body).data = <<2, 2, 1, 2, 2>>
  /\ w.body # HandlerBytes(ops)

(***************************************************************************)
(* C9.  Every response the handler committed through the compression        *)
(* middleware carries Accept-Encoding in the Vary header it was sent with.  *)
(***************************************************************************)
C9_VaryAlways ==
  (CompressOnly /\ pc = "done" /\ Calls(ops) # <<>>) =>
     S.AcceptEncoding \in Values(w.sent["Vary"])

(***************************************************************************)
(* C10.  At a commit on the compression decorator with compression active,  *)
(* the headers the transport commits have Content-Encoding: gzip and no     *)
(* Content-Length; without compression a WriteHeader or a Write changes     *)
(* neither header, and the transport commits them as the handler set them.  *)
(***************************************************************************)
C10_HeadersAtCommit ==
  [][(CompressOnly /\ HandlerDid({"wh", "w"})) =>
       IF w.L[1].gz.on
       THEN Len(w'.L[1].commits) > Len(w.L[1].commits) =>
              /\ w'.hdr["Content-Encoding"] = <<S.gzip>>
              /\ w'.hdr["Content-Length"] = <<>>
              /\ ~w.committed =>
                   /\ w'.committed
                   /\ w'.sent["Content-Encoding"] = <<S.gzip>>
                   /\ w'.sent["Content-Length"] = <<>>
       ELSE /\ w'.hdr["Content-Encoding"] = w.hdr["Content-Encoding"]
            /\ w'.hdr["Content-Length"] = w.hdr["Content-Length"]
            /\ ~w.committed =>
                 /\ w'.sent["Content-Encoding"] = w.hdr["Content-Encoding"]
                 /\ w'.sent["Content-Length"] = w.hdr["Content-Length"]]_vars

C10_Witness ==
  /\ CompressOnly
  /\ w.L[1].gz.on
  /\ Len(ops) = 3
  /\ ops[1] = Op("set", "Content-Length", S.five, 0, <<>>)
  /\ ops[2] = Op("set", "Content-Encoding", S.br, 0, <<>>)
  /\ ops[3].op = "wh"
  /\ w.committed
  /\ w.sent["Content-Encoding"] = <<S.gzip>>
  /\ w.sent["Content-Length"] = <<>>

C10_WitnessInactive ==
  /\ CompressOnly
  /\ w.L[1].kind = "gzip" /\ ~w.L[1].gz.on
  /\ Len(ops) = 2 /\ ops[1].op = "set" /\ ops[2].op = "w"
  /\ w.sent["Content-Length"] = <<S.five>>

(***************************************************************************)
(* C11.  The level is checked when the request is handled, against the      *)
(* levels the compressor accepts (-2 to 9): for a request that accepts gzip *)
(* and is not declined by the predicate, with such a level the body is a    *)
(* gzip stream of the handler's bytes and a response committed by a call    *)
(* on the wrapper is sent as Content-Encoding: gzip; with any other level   *)
(* the request is served to its end with exactly the handler's bytes and no *)
(* Content-Encoding added.                                                  *)
(***************************************************************************)
C11_LevelCheckedAtUse ==
  (CompressOnly /\ pc = "done" /\ req.acceptEncoding \in GzipAccepted
     /\ PredicateAllows) =>
     IF conf.gzipLevel \in GzipAcceptedLevels
     THEN /\ Gunzip(w.body) = [ok |-> TRUE, data |-> HandlerBytes(ops)]
          /\ FirstOutputIsCall => w.sent["Content-Encoding"] = <<S.gzip>>
     ELSE /\ w.body = HandlerBytes(ops)
          /\ ReceivedBytes(w.ev) = HandlerBytes(ops)
          /\ w.hdr["Content-Encoding"] = HandlerHdr(ops)["Content-Encoding"]
          /\ S.gzip \notin Values(w.sent["Content-Encoding"])

\* C11 as it was stated: the levels that compress are 1 to 9, every other
\* level serves the handler's bytes uncompressed.
C11_LevelRange1to9 ==
  (CompressOnly /\ pc = "done" /\ req.acceptEncoding \in GzipAccepted
     /\ PredicateAllows) =>
     IF conf.gzipLevel \in 1..9
     THEN Gunzip(w.body) = [ok |-> TRUE, data |-> HandlerBytes(ops)]
     ELSE w.body = HandlerBytes(ops)

C11_Witness ==
  /\ CompressOnly
  /\ pc = "done"
  /\ conf.gzipLevel = 10
  /\ req.acceptEncoding = <<S.gzip>>
  /\ Len(ops) = 2 /\ ops[1].op = "w" /\ ops[2].op = "w"
  /\ w.body = HandlerBytes(ops)
  /\ w.status = StatusOK

C11_WitnessLowestLevel ==
  /\ CompressOnly
  /\ pc = "done"
  /\ conf.gzipLevel = -2
  /\ req.acceptEncoding = <<S.gzip>>
  /\ HandlerBytes(ops) = <<1, 2, 2>>
  /\ Gunzip(w.body).data = <<1, 2, 2>>
  /\ w.sent["Content-Encoding"] = <<S.gzip>>

(***************************************************************************)
(* C12.  A compressor made for the request has not been closed while the    *)
(* handler runs, and has been closed exactly once when control has left the *)
(* middleware, by return or by panic; the body the transport then holds is  *)
(* the complete gzip stream of every byte the handler wrote.                *)
(***************************************************************************)
C12_ClosedOnEveryExit ==
  (CompressOnly /\ w.L[1].gz.on) =>
     /\ pc = "run" => w.L[1].gz.closes = 0
     /\ pc \in {"done", "panicked"} =>
          /\ w.L[1].gz.closes = 1
          /\ w.L[1].gz.closed
          /\ Gunzip(w.body) = [ok |-> TRUE, data |-> HandlerBytes(ops)]

C12_Witness ==
  /\ CompressOnly
  /\ w.L[1].gz.on
  /\ pc = "panicked"
  /\ HandlerBytes(ops) = <<1>>
  /\ w.L[1].gz.closes = 1
  /\ Gunzip(w.body) = [ok |-> TRUE, data |-> <<1>>]

(***************************************************************************)
(* C13.  The wrapper handed to the handler compresses if and only if the    *)
(* predicate is absent or returns true, the Accept-Encoding header gives    *)
(* gzip or * a positive weight, and the configured level is one the         *)
(* compressor accepts.                                                      *)
(***************************************************************************)
C13_SelectedIff ==
  CompressOnly =>
    ((w.L[1].kind = "gzip" /\ w.L[1].gz.on) <=>
       (/\ PredicateAllows
        /\ req.acceptEncoding \in GzipAccepted
        /\ conf.gzipLevel \in GzipAcceptedLevels))

\* C13 as it was stated: the predicate and the weights alone decide.
C13_SelectedIffPredicateAndWeight ==
  CompressOnly =>
    ((w.L[1].kind = "gzip" /\ w.L[1].gz.on) <=>
       (PredicateAllows /\ req.acceptEncoding \in GzipAccepted))

C13_Witness ==
  /\ CompressOnly
  /\ conf.check = "notSpecial"
  /\ req.path = "/"
  /\ req.acceptEncoding = <<S.br_star_q01>>
  /\ w.L[1].gz.on
  /\ pc = "done"
  /\ Gunzip(w.body).ok

C13_WitnessPredicateFalse ==
  /\ CompressOnly
  /\ conf.check = "notSpecial"
  /\ req.path = "/special"
  /\ req.acceptEncoding = <<S.gzip>>
  /\ conf.gzipLevel = DefaultCompression
  /\ w.L[1].kind = "none"
  /\ pc = "done"
  /\ w.body = <<1>>

(***************************************************************************)
(* C14.  parseEncodings returns a map whose keys are the trimmed,           *)
(* lower-cased codings of the comma-separated parts of all the values, and  *)
(* which gives each coding the weight of the last part that names it: 1     *)
(* without a q parameter, the value of q when it is a number, 0 when it is  *)
(* not.  No list of values makes it fail, and no values give the empty map. *)
(***************************************************************************)
\* What each part says, read by hand: its coding and its weight num/den
Meaning(p) ==
  CASE p = S.gzip -> [coding |-> S.gzip, num |-> 1, den |-> 1]
    [] p = S.GZIP_sp -> [coding |-> S.gzip, num |-> 1, den |-> 1]
    [] p = S.gzip_q0 -> [coding |-> S.gzip, num |-> 0, den |-> 1]
    [] p = S.gzip_q05 -> [coding |-> S.gzip, num |-> 1, den |-> 2]
    [] p = S.gzip_qbad -> [coding |-> S.gzip, num |-> 0, den |-> 1]
    [] p = S.gzip_q0123 -> [coding |-> S.gzip, num |-> 123, den |-> 1000]
    [] p = S.star_q01 -> [coding |-> S.star, num |-> 1, den |-> 10]
    [] p = S.sp_br_q09 -> [coding |-> S.br, num |-> 9, den |-> 10]
    [] p = S.Deflate -> [coding |-> S.deflate, num |-> 1, den |-> 1]
    [] p = S.deflate_q -> [coding |-> S.deflate, num |-> 0, den |-> 1]
    [] p = <<>> -> [coding |-> <<>>, num |-> 1, den |-> 1]

SameWeight(v, m) == v.num * m.den = m.num * v.den

C14_ParseEncodings ==
  pc = "parsed" =>
    LET parts == Flatten(tokens)
        n == Len(parts)
    IN /\ DOMAIN codings = {Meaning(parts[i]).coding : i \in 1..n}
       /\ \A i \in 1..n :
            (\A j \in (i + 1)..n :
               Meaning(parts[j]).coding # Meaning(parts[i]).coding) =>
              SameWeight(codings[Meaning(parts[i]).coding], Meaning(parts[i]))
       /\ accept = <<>> => codings = NoEncodings

C14_Witness ==
  /\ pc = "parsed"
  /\ tokens = <<<<S.GZIP_sp, S.gzip_qbad>>, <<S.star_q01>>>>
  /\ DOMAIN codings = {S.gzip, S.star}
  /\ codings[S.gzip].num = 0
  /\ codings[S.star] = [num |-> 1, den |-> 10]

(***************************************************************************)
(* C15.  At a commit on the cache-policy decorator with no Cache-Control    *)
(* present, Cache-Control becomes max-age=<whole seconds> of the entry for  *)
(* the Content-Type without its parameters if there is one (a zero entry    *)
(* included), else of the entry for <main type>/* if there is one, and      *)
(* stays unset if there is neither or no Content-Type; the transport        *)
(* commits the headers so set.                                              *)
(***************************************************************************)
\* The content types of the model, read by hand: without parameters, and
\* the wildcard of the main type
FullType(ct) ==
  CASE ct = S.json_charset -> S.json
    [] ct = S.webp -> S.webp
    [] ct = <<>> -> <<>>

WildcardType(ct) ==
  CASE ct = S.json_charset -> S.application_any
    [] ct = S.webp -> S.image_any
    [] ct = <<>> -> <<"/", "*">>

\* The durations of the model in whole seconds, as text
WholeSeconds(d) ==
  CASE d = 0 -> <<"0">>
    [] d = 15 -> <<"1">>
    [] d = Hour -> <<"3", "6", "0", "0">>
    [] d = 24 * Hour -> <<"8", "6", "4", "0", "0">>
    [] d = Year -> <<"3", "1", "5", "3", "6", "0", "0", "0">>

ExpectedCacheControl(ct) ==
  IF FullType(ct) \in DOMAIN conf.cacheTimes
  THEN <<S.maxage \o WholeSeconds(conf.cacheTimes[FullType(ct)])>>
  ELSE IF WildcardType(ct) \in DOMAIN conf.cacheTimes
  THEN <<S.maxage \o WholeSeconds(conf.cacheTimes[WildcardType(ct)])>>
  ELSE <<>>

C15_PolicyLookup ==
  [][(CacheOnly /\ HandlerCommits /\ w.hdr["Cache-Control"] = <<>>) =>
       LET expected == ExpectedCacheControl(HGet(w.hdr, "Content-Type"))
       IN /\ w'.hdr["Cache-Control"] = expected
          /\ w'.hdr["Content-Type"] = w.hdr["Content-Type"]
          /\ TransportCommits => w'.sent["Cache-Control"] = expected]_vars

C15_Witness ==
  /\ CacheOnly
  /\ conf.cacheTimes = zeroCacheTimes
  /\ Len(ops) = 2
  /\ ops[1] = Op("set", "Content-Type", S.json_charset, 0, <<>>)
  /\ ops[2].op = "w"
  /\ w.sent["Cache-Control"] = <<S.maxage \o <<"0">>>>

C15_WitnessWildcard ==
  /\ CacheOnly
  /\ conf.cacheTimes = customCacheTimes
  /\ Len(ops) = 2
  /\ ops[1] = Op("set", "Content-Type", S.webp, 0, <<>>)
  /\ ops[2].op = "wh"
  /\ w.sent["Cache-Control"] = <<S.maxage \o <<"8", "6", "4", "0", "0">>>>

C15_WitnessTruncated ==
  /\ CacheOnly
  /\ conf.cacheTimes = customCacheTimes
  /\ Len(ops) = 2
  /\ ops[1] = Op("set", "Content-Type", S.json_charset, 0, <<>>)
  /\ ops[2].op = "wh"
  /\ w.sent["Cache-Control"] = <<S.maxage \o <<"1">>>>

C15_WitnessMiss ==
  /\ CacheOnly
  /\ conf.cacheTimes = zeroCacheTimes
  /\ Len(ops) = 2
  /\ ops[1] = Op("set", "Content-Type", S.webp, 0, <<>>)
  /\ ops[2].op = "wh"
  /\ w.committed
  /\ w.sent["Cache-Control"] = <<>>

(***************************************************************************)
(* C16.  At a commit on the cache-policy decorator with a Cache-Control     *)
(* value present, the Cache-Control header is after the commit what it was  *)
(* before, and the transport commits it so, whatever the Content-Type and   *)
(* the status.                                                              *)
(***************************************************************************)
C16_ExistingPolicyKept ==
  [][(CacheOnly /\ HandlerCommits /\ HGet(w.hdr, "Cache-Control") # <<>>) =>
       /\ w'.hdr["Cache-Control"] = w.hdr["Cache-Control"]
       /\ TransportCommits => w'.sent["Cache-Control"] = w.hdr["Cache-Control"]]_vars

C16_Witness ==
  /\ CacheOnly
  /\ Len(ops) = 3
  /\ ops[1] = Op("set", "Cache-Control", S.nocache, 0, <<>>)
  /\ ops[2] = Op("set", "Content-Type", S.webp, 0, <<>>)
  /\ ops[3] = Op("wh", "", <<>>, 404, <<>>)
  /\ conf.cacheTimes = defaultCacheTimes
  /\ w.status = 404
  /\ w.sent["Cache-Control"] = <<S.nocache>>

(***************************************************************************)
(* C17.  At a commit on the header-injection decorator every key has, after *)
(* the commit, the values it had before followed by the values configured   *)
(* for it in their configured order, and the transport commits the headers  *)
(* so extended.                                                             *)
(***************************************************************************)
C17_AddedAfterExisting ==
  [][(HeadersOnly /\ HandlerCommits) =>
       /\ \A k \in HeaderKeys : w'.hdr[k] = w.hdr[k] \o conf.headers[k]
       /\ TransportCommits => w'.sent = w'.hdr]_vars

C17_Witness ==
  /\ HeadersOnly
  /\ Len(ops) = 3
  /\ ops[1] = Op("set", "Cache-Control", S.nostore, 0, <<>>)
  /\ ops[2] = Op("set", "X-Original-Header", S.original, 0, <<>>)
  /\ ops[3].op = "wh"
  /\ w.sent["Cache-Control"] = <<S.nostore, S.nocache, S.nostore>>
  /\ w.sent["X-Original-Header"] = <<S.original>>
  /\ w.sent["X-Frame-Options"] = <<S.deny>>

(***************************************************************************)
(* C18.  When the handler has returned, the response that went through the  *)
(* header-injection decorator was sent with every configured header,        *)
(* whatever the handler did.                                                *)
(***************************************************************************)
C18_HeadersAlways ==
  (HeadersOnly /\ pc = "done") => ConfiguredHeadersSent

(***************************************************************************)
(* C19.  With the header-injection decorator outside the error-substitution *)
(* decorator, a response whose first commit was substituted is sent with    *)
(* every configured header, also when clearHeaders is set.                  *)
(***************************************************************************)
C19_InjectedAfterClear ==
  (ErrorInsideHeaders /\ pc = "done" /\ w.L[1].commits # <<>>
     /\ w.L[1].commits[1] \in DOMAIN conf.handlers) =>
     ConfiguredHeadersSent

(***************************************************************************)
(* C20.  When the handler has returned, the status TextLog hands to the     *)
(* sink is the status the transport committed.                              *)
(***************************************************************************)
C20_RecordedStatusIsCommitted ==
  (LogOnly /\ pc = "done") =>
     /\ Len(w.logged) = 1
     /\ w.logged[1].status = w.status

(***************************************************************************)
(* C21.  When the handler has returned, the byte count TextLog hands to the *)
(* sink is the number of body bytes the handler wrote, all of which the     *)
(* transport accepted; the transport received the handler's status codes    *)
(* and bytes as they were issued, in order, and the headers are as the      *)
(* handler set them.                                                        *)
(***************************************************************************)
C21_BytesCounted ==
  (LogOnly /\ pc = "done") =>
     /\ Len(w.logged) = 1
     /\ w.logged[1].written = Len(HandlerBytes(ops))
     /\ w.logged[1].written = Len(w.body)
     /\ w.body = HandlerBytes(ops)
     /\ ReceivedBytes(w.ev) = HandlerBytes(ops)
     /\ ReceivedCodes(w.ev) =
          [i \in 1..Len(ExplicitCommits(ops)) |-> ExplicitCommits(ops)[i].c]
     /\ w.hdr = HandlerHdr(ops)

C21_Witness ==
  /\ LogOnly
  /\ pc = "done"
  /\ Len(ops) = 3
  /\ ops[1] = Op("wh", "", <<>>, 404, <<>>)
  /\ ops[2] = Op("w", "", <<>>, 0, <<1>>)
  /\ ops[3] = Op("w", "", <<>>, 0, <<2, 2>>)
  /\ w.logged = <<[status |-> 404, written |-> 3]>>
  /\ w.body = <<1, 2, 2>>

(***************************************************************************)
(* C22.  Under Recover, a panic of the handler never leaves the middleware: *)
(* the logger has been called once, with the request and the panic value,   *)
(* and if the handler had committed nothing the response is status 500 with *)
(* the body "Internal Server Error\n".  Without a panic the logger is not   *)
(* called and the transport has received only what the handler sent.        *)
(***************************************************************************)
C22_RecoverAnswers500 ==
  RecoverOnly =>
    /\ pc = "run" => w.panicLog = <<>>
    /\ pc # "panicked"
    /\ (pc = "done" /\ Panicked) =>
         /\ w.panicLog = <<[req |-> req, err |-> w.panicValue]>>
         /\ ~CommittedByHandler => (w.status = 500 /\ w.body = ErrorBody)
    /\ (pc = "done" /\ ~Panicked) =>
         /\ w.panicLog = <<>>
         /\ w.body = HandlerBytes(ops)
         /\ ReceivedCodes(w.ev) =
              [i \in 1..Len(ExplicitCommits(ops)) |-> ExplicitCommits(ops)[i].c]
         /\ w.hdr = HandlerHdr(ops)

C22_Witness ==
  /\ RecoverOnly
  /\ pc = "done"
  /\ Len(ops) = 1 /\ ops[1].op = "set"
  /\ w.panicValue = "custom error"
  /\ w.panicLog = <<[req |-> req, err |-> "custom error"]>>
  /\ w.status = 500
  /\ w.body = ErrorBody

(***************************************************************************)
(* C23.  Under Recover, when the handler panics after it has committed the  *)
(* response, the status and the body the transport holds are the handler's: *)
(* nothing is written to the response after the panic.                      *)
(***************************************************************************)
C23_CommittedResponseUntouched ==
  (RecoverOnly /\ pc = "done" /\ Panicked /\ CommittedByHandler) =>
     /\ w.body = HandlerBytes(ops)
     /\ \A j \in 1..Len(w.ev) : w.ev[j].t = "bW" => w.ev[j].o = "handler"

(***************************************************************************)
(* C29.  Under CrossOriginProtection the handler is invoked if and only if  *)
(* the method is GET, HEAD or OPTIONS, or Sec-Fetch-Site is absent or       *)
(* empty, same-origin or none; every other request is answered with status  *)
(* 403 and no body.                                                         *)
(***************************************************************************)
C29_CrossOriginGate ==
  CrossOriginOnly =>
    LET allowed == \/ req.method \in {"GET", "HEAD", "OPTIONS"}
                   \/ req.secFetchSite \in {"", "same-origin", "none"}
    IN /\ w.handled <=> allowed
       /\ ~allowed => /\ pc = "done"
                       /\ ops = <<>>
                       /\ w.committed
                       /\ w.status = 403
                       /\ w.body = <<>>

C29_Witness ==
  /\ CrossOriginOnly
  /\ req.method = "POST"
  /\ req.secFetchSite = "same-site"
  /\ pc = "done"
  /\ ~w.handled
  /\ w.status = 403
  /\ w.body = <<>>

C29_WitnessNoHeader ==
  /\ CrossOriginOnly
  /\ req.method = "DELETE"
  /\ req.secFetchSite = ""
  /\ pc = "done"
  /\ w.handled
  /\ ops = <<Op("w", "", <<>>, 0, <<1>>)>>
  /\ w.status = 200
  /\ w.body = <<1>>

(***************************************************************************)
(* C30.  Through every chain of the model, when the transport's writer is a *)
(* Flusher every flush the handler has issued has reached the transport.    *)
(***************************************************************************)
C30_FlushReachesTransport ==
  (pc # "idle" /\ conf.flusher) =>
     w.flushes = Len(SelectSeq(ops, LAMBDA x : x.op = "flush"))

(***************************************************************************)
(* C24.  Every request served by a handler composed by Chain from the       *)
(* middlewares 1..n, the first one and every later one, passes through each *)
(* middleware exactly once, in the order n, ..., 1, and then the innermost  *)
(* handler.                                                                 *)
(***************************************************************************)
C24_EachMiddlewareOnce ==
  pc = "chain" =>
    \A p \in 1..MaxRequests :
      served[p].at = "done" =>
        LET n == Len(middleware)
        IN served[p].order = [k \in 1..(n + 1) |-> IF k <= n THEN n + 1 - k ELSE 0]

(***************************************************************************)
(* C25.  Requests served by the same composed handler share no mutable      *)
(* state: any two of them, served one after the other or interleaved, pass  *)
(* through the same chain of middlewares.                                   *)
(***************************************************************************)
C25_RequestsObserveSameChain ==
  pc = "chain" =>
    \A p, q \in 1..MaxRequests :
      (served[p].at = "done" /\ served[q].at = "done") =>
         served[p].order = served[q].order

(***************************************************************************)
(* C26.  With the hop list being the X-Forwarded-For entries in header      *)
(* order followed by the peer address, and the scan from the peer meeting   *)
(* no hop that fails to parse before it ends, r.RemoteAddr is the hop       *)
(* nearest the peer that lies in no trusted prefix, and the first entry of  *)
(* the list when every hop is trusted.                                      *)
(***************************************************************************)
C26_FirstUntrustedHop ==
  (Resolved /\ (NotTrusted = {} \/ HopClass(Hops[Decider]) = "untrusted")) =>
     /\ pc = "served"
     /\ remoteAddr = IF NotTrusted = {} THEN Hops[1] ELSE Hops[Decider]

C26_Witness ==
  /\ pc = "served"
  /\ trustedProxies = defaultTrustedProxies
  /\ peer = S.ip_192_168_1_1_p8080
  /\ forwardedFor = <<S.ip_203_0_113_1 \o <<",", " ">> \o S.ip_198_51_100_1,
                      S.ip_192_168_1_100>>
  /\ entries = <<S.ip_203_0_113_1, S.ip_198_51_100_1, S.ip_192_168_1_100>>
  /\ remoteAddr = S.ip_198_51_100_1

C26_WitnessAllTrusted ==
  /\ pc = "served"
  /\ trustedProxies = defaultTrustedProxies
  /\ peer = S.ip_172_31_255_255_p8080
  /\ entries = <<S.ip_192_168_1_100, S.ip_10_0_0_1_p4711>>
  /\ remoteAddr = S.ip_192_168_1_100

(***************************************************************************)
(* C27.  When the scan from the peer address reaches, after trusted hops    *)
(* only, a forwarded entry that does not parse as an address, r.RemoteAddr  *)
(* is the hop scanned just before it and the request is served.             *)
(***************************************************************************)
C27_BadHopGivesPreviousHop ==
  (/\ Resolved
   /\ NotTrusted # {}
   /\ HopClass(Hops[Decider]) = "bad"
   /\ Decider < Len(Hops)) =>
     /\ pc = "served"
     /\ remoteAddr = Hops[Decider + 1]

C27_Witness ==
  /\ pc = "served"
  /\ trustedProxies = defaultTrustedProxies
  /\ peer = S.ip_192_168_1_1_p8080
  /\ entries = <<S.ip_203_0_113_1, S.invalid_ip, S.ip_192_168_1_100>>
  /\ remoteAddr = S.ip_192_168_1_100

(***************************************************************************)
(* C28.  As stated: whenever any hop of the list fails to parse,            *)
(* r.RemoteAddr is the peer address.                                        *)
(***************************************************************************)
C28_PeerWhenAnyHopBad ==
  (Resolved /\ \E i \in 1..Len(Hops) : HopClass(Hops[i]) = "bad") =>
     /\ pc = "served"
     /\ remoteAddr = peer

(***************************************************************************)
(* C28, amended.  Whenever the forwarded entry next to the peer fails to    *)
(* parse and the peer address itself parses, r.RemoteAddr is the peer       *)
(* address.                                                                 *)
(***************************************************************************)
C28_PeerWhenLastEntryBad ==
  (/\ Resolved
   /\ entries # <<>>
   /\ HopClass(entries[Len(entries)]) = "bad"
   /\ HopClass(peer) # "bad") =>
     /\ pc = "served"
     /\ remoteAddr = peer

C28_Witness ==
  /\ pc = "served"
  /\ trustedProxies = defaultTrustedProxies
  /\ peer = S.ip_192_168_1_1_p8080
  /\ entries = <<S.ip_203_0_113_1, S.invalid_ip>>
  /\ remoteAddr = S.ip_192_168_1_1_p8080

(***************************************************************************)
(* C31.  The path StripTrailingSlashes hands to the next handler never ends *)
(* with "/" unless it is exactly "/"; a path without a trailing slash and   *)
(* the root path are passed on unchanged, and so is the query string.       *)
(***************************************************************************)
C31_NoTrailingSlash ==
  pc = "served" =>
    /\ urlPath = <<"/">> \/ urlPath[Len(urlPath)] # "/"
    /\ (givenPath = <<"/">> \/ givenPath[Len(givenPath)] # "/") =>
         urlPath = givenPath
    /\ rawQuery \in RawQueries

(***************************************************************************)
(* C32.  The error-substitution decorator is decided by its first commit    *)
(* and never changes state again: it drops the handler's output exactly     *)
(* when the code of the first commit has a registered substitute, and the   *)
(* substitute handler has run once in that case and never otherwise,        *)
(* whatever WriteHeader calls follow.                                       *)
(***************************************************************************)
C32_DecidedByFirstCommit ==
  (ErrorOnly /\ w.L[1].commits # <<>>) =>
     /\ w.L[1].drop = FirstCommitRegistered
     /\ w.subRuns = IF FirstCommitRegistered THEN 1 ELSE 0

(***************************************************************************)
(* C33.  Every run of a substitute handler writes to the stream the         *)
(* error-substitution decorator wraps: the status the substitute sets and   *)
(* the body it writes arrive there as written and nothing else does, and    *)
(* the decorator sees no further commit, so a status that has a registered  *)
(* substitute itself starts no second substitution.                         *)
(***************************************************************************)
C33_SubstituteWritesRawStream ==
  [][(ErrorOnly /\ w'.subRuns # w.subRuns) =>
       LET h == conf.handlers[Last(w'.L[1].commits)]
           new == SubSeq(w'.ev, Len(w.ev) + 1, Len(w'.ev))
           got == SelectSeq(new, LAMBDA e : e.t \in {"bWH", "bW"})
           status == IF h.code = 0 THEN <<>>
                     ELSE <<Ev("bWH", 0, h.code, <<>>, "substitute")>>
           body == IF h.body = <<>> THEN <<>>
                   ELSE <<Ev("bW", 0, 0, h.body, "substitute")>>
       IN /\ w'.subRuns = w.subRuns + 1
          /\ Len(w'.L[1].commits) = Len(w.L[1].commits) + 1
          /\ got = status \o body]_vars

\* A 404 whose substitute sets 404 itself: one substitution, and its status
\* and body are the response
C33_Witness ==
  /\ ErrorOnly
  /\ conf.handlers = 404 :> SubFull(404)
  /\ Len(ops) = 1 /\ ops[1].op = "wh" /\ ops[1].c = 404
  /\ w.subRuns = 1
  /\ w.L[1].commits = <<404>>
  /\ w.status = 404
  /\ w.body = SubFull(404).body

(***************************************************************************)
(* C34.  In a stack of decorators the transport commits only after the      *)
(* commit hook of every decorator has run, and the hooks run from the       *)
(* decorator nearest the handler to the one nearest the transport: before   *)
(* every commit the transport is handed, each decorator has run its hook,   *)
(* later than the decorator before it.                                      *)
(***************************************************************************)
C34_HooksBeforeTransportCommit ==
  (pc # "idle" /\ w.L # <<>>
     /\ \A i \in 1..Len(w.L) : w.L[i].kind \in Decorators) =>
     LET HookBefore(i, k) ==
           IF i = 0 THEN {0}
           ELSE {j \in 1..(k - 1) : w.ev[j].t = "commit" /\ w.ev[j].l = i}
         LastHook(i, k) ==
           CHOOSE j \in HookBefore(i, k) : \A m \in HookBefore(i, k) : m <= j
     IN /\ w.committed => \A i \in 1..Len(w.L) : w.L[i].headers
        /\ \A k \in 1..Len(w.ev) : w.ev[k].t = "bWH" =>
             \A i \in 1..Len(w.L) :
               /\ HookBefore(i, k) # {}
               /\ HookBefore(i - 1, k) # {}
               /\ LastHook(i - 1, k) < LastHook(i, k)

(***************************************************************************)
(* C35.  When the peer address parses and lies in no trusted prefix, the    *)
(* request is served with the peer address as its remote address, whatever  *)
(* the X-Forwarded-For values are; so requests that differ only in those    *)
(* values resolve to the same address.                                      *)
(***************************************************************************)
C35_UntrustedPeerWins ==
  (Resolved /\ HopClass(peer) = "untrusted") =>
     /\ pc = "served"
     /\ remoteAddr = peer

\* An untrusted peer that names a public and a private address as forwarded
C35_Witness ==
  /\ pc = "served"
  /\ trustedProxies = defaultTrustedProxies
  /\ peer = S.ip_203_0_113_50_p8080
  /\ entries = <<S.ip_192_168_1_100, S.ip_203_0_113_1>>
  /\ remoteAddr = S.ip_203_0_113_50_p8080

(***************************************************************************)
(* C36.  Under the compression decorator alone, whatever the handler did    *)
(* before it returned, the response was committed with Content-Encoding:    *)
(* gzip exactly when the body the transport received is a gzip stream.      *)
(***************************************************************************)
C36_EncodingMatchesBody ==
  (CompressOnly /\ pc = "done") =>
     (w.sent["Content-Encoding"] = <<S.gzip>>) = Gunzip(w.body).ok

(***************************************************************************)
(* C37.  With Recover outside the compression middleware and a request that *)
(* accepts gzip, a handler that panics before it has written, committed or  *)
(* flushed anything is answered with status 500.                            *)
(***************************************************************************)
C37_PanicUnderCompressGives500 ==
  (conf.mws = <<"compress", "recover">> /\ pc = "done" /\ Panicked
     /\ w.L[1].gz.on /\ Outputs(ops) = <<>>) =>
     w.status = StatusInternalServerError

(***************************************************************************)
(* C38.  While compression is active, once the handler has called Flush on  *)
(* the compression decorator the compressor holds back none of the bytes    *)
(* the handler wrote before: they have all been handed, compressed, to the  *)
(* underlying stream.                                                       *)
(***************************************************************************)
C38_FlushDeliversWrittenBytes ==
  (CompressOnly /\ pc = "run" /\ w.L[1].gz.on /\ ops # <<>>
     /\ Last(ops).op = "flush") =>
     /\ w.L[1].gz.buf = <<>>
     /\ HandlerBytes(ops) # <<>> => Len(w.body) > Len(GzMagic)

(***************************************************************************)
(* C39.  TextLog calls its sink exactly once for every request it handles,  *)
(* after the downstream handler has finished and not before, whether the    *)
(* handler returned or panicked.                                            *)
(***************************************************************************)
C39_SinkCalledOnce ==
  LogOnly =>
    /\ pc = "run" => w.logged = <<>>
    /\ pc \in {"done", "panicked"} => Len(w.logged) = 1

(***************************************************************************)
(* C40.  Address resolution never fails the request: for every list of      *)
(* X-Forwarded-For values and every peer address, a peer address that does  *)
(* not parse included, the request is served and the address it is given is *)
(* one of the hops.                                                         *)
(***************************************************************************)
C40_ResolutionNeverFails ==
  Resolved =>
    /\ pc = "served"
    /\ \E i \in 1..Len(Hops) : remoteAddr = Hops[i]

====
